---- MODULE Spec2Model ----
(***************************************************************************)
(* Model of the NOAA PSL readers of act/io/noaapsl.py.                     *)
(*                                                                         *)
(* A file is a sequence of lines, a line a sequence of tokens (the line    *)
(* split on blanks, empty strings dropped).  Lines are addressed the way   *)
(* pandas addresses them: skiprows = list(range(k)) makes line k (counted  *)
(* from 0) the first line read.  Files hold no blank lines and no tabs.    *)
(*                                                                         *)
(* Python exceptions are values: "none", "EmptyDataError", "IndexError",   *)
(* "ValueError".                                                           *)
(***************************************************************************)
EXTENDS Integers, Sequences, FiniteSets, TLC

VARIABLES
    arg,        \* the argument `files` of read_psl_radar_fmcw_moment
    files,      \* the files that the items of `for f in files` name, in order
    fi,         \* 1-based position of `for f in files`
    pc,         \* "open" | "scan" | "done" | "raised" | "idle"
    data,       \* the dictionary `data`: name -> its 'data' list
    ct,         \* record counter of the current file
    error_ct,   \* exception counter of the current file
    error,      \* loop flag of the current file
    ranges,     \* the local `ranges` (<<>> until first assigned)
    last,       \* what the latest iteration did (offsets, outcome)
    hist,       \* outcomes of the iterations of the current file, in order
    raisedAt,   \* where an exception left the call: "none" | "h1" | "record" | "from_dict"
    amb,        \* TRUE once a read met a case pandas versions resolve differently
    wpFile,     \* the wind-profiler file (lines of column 0 of df)
    wpPc,       \* "start" | "loop" | "concat" | "done" | "raised" | "idle"
    wpI,        \* loop variable i of the marker loop
    low,        \* list `low`
    hi,         \* list `hi`
    wpOut,      \* the returned pair (obj_low, obj_high), once built
    wpRaisedAt, \* where an exception left read_psl_wind_profiler, or "none"
    hdr,        \* a column header line as split at line 46
    cols,       \* column_list, changed in place by the loop of line 49
    ri,         \* passes of the loop of line 49 made so far
    rnPc,       \* "loop" | "done" | "idle"
    tFile,              \* the temperature file: all its lines
    tPc,                \* "start" | "loop" | "done" | "raised" | "idle"
    sections_of_file,   \* the groups of line 182, in order
    secK,               \* sections the loop of line 187 has taken
    start_line,         \* line 185
    list_of_datasets,   \* line 186
    tOut,               \* the returned dataset, once built
    tRaisedAt,          \* where an exception left the call, or "none"
    pvArg,              \* the argument `files` of read_psl_parsivel
    pvFiles,            \* `files` after lines 383-384
    pvK,                \* files the loop of line 389 has taken
    pvData,             \* list `data`: the index of each frame appended
    end_time,           \* line 388
    pvOut,              \* the returned dataset, once built
    pvPc,               \* "start" | "loop" | "done" | "raised" | "idle"
    pvRaisedAt,         \* where an exception left the call, or "none"
    qcVar,              \* self._obj[var_name]: dtype, values, attribute
    qcArg,              \* the argument missing_value
    missing_value,      \* the local missing_value after lines 84-98
    index,              \* line 108
    qcPc                \* "start" | "resolved" | "done" | "raised" | "idle"

radarVars == <<arg, files, fi, pc, data, ct, error_ct, error, ranges, last, hist, raisedAt, amb>>
wpVars == <<wpFile, wpPc, wpI, low, hi, wpOut, wpRaisedAt>>
rnVars == <<hdr, cols, ri, rnPc>>
tVars == <<tFile, tPc, sections_of_file, secK, start_line, list_of_datasets, tOut, tRaisedAt>>
pvVars == <<pvArg, pvFiles, pvK, pvData, end_time, pvOut, pvPc, pvRaisedAt>>
qcVars == <<qcVar, qcArg, missing_value, index, qcPc>>
vars == <<arg, files, fi, pc, data, ct, error_ct, error, ranges, last, hist, raisedAt, amb,
          wpFile, wpPc, wpI, low, hi, wpOut, wpRaisedAt,
          hdr, cols, ri, rnPc,
          tFile, tPc, sections_of_file, secK, start_line, list_of_datasets, tOut, tRaisedAt,
          pvArg, pvFiles, pvK, pvData, end_time, pvOut, pvPc, pvRaisedAt,
          qcVar, qcArg, missing_value, index, qcPc>>

(***************************************************************************)
(* Bounds of the model.                                                    *)
(***************************************************************************)
MaxRecs == 7        \* physical records in a constant-gate radar file
MaxG == 3           \* largest gate count of the constant-gate radar files
MaxRows == 2        \* data rows per record in the gate-token radar files
MaxMarkers == 4     \* marker lines in a wind-profiler file
MaxTable == 2       \* table rows of a wind-profiler block
MaxHdr == 4         \* columns of a header line given to the renaming loop
MaxSecs == 3        \* data sections of a temperature file
MaxGates == 2       \* largest gate count a temperature section declares
MaxName == 3        \* characters of a file name given as a string
MaxPvFiles == 2     \* files in the list given to the parsivel reader
MaxPvRows == 2      \* rows of a parsivel file
MaxVals == 2        \* values of the variable given to the missing-value test

(***************************************************************************)
(* Tokens and Python's int() / float().                                    *)
(***************************************************************************)
I(n) == [k |-> "int", v |-> n]          \* an integer literal
R(n) == [k |-> "real", v |-> n]         \* a literal with a fraction, "n.5"
Str(n) == [k |-> "str", v |-> n]        \* a non-numeric string, number n
LatLit == Str(1)                          \* the string 'lat'
LonLit == Str(2)                          \* the string 'lon'
SiteTok == Str(3)                         \* a site code such as 'kps'
Xtok == Str(0)                            \* any other non-numeric string

Min(a, b) == IF a < b THEN a ELSE b
Max(a, b) == IF a < b THEN b ELSE a
Last(s) == s[Len(s)]

RECURSIVE Flatten(_)
Flatten(ss) == IF Len(ss) = 0 THEN <<>> ELSE Head(ss) \o Flatten(Tail(ss))

PyInt(t) ==
    IF t.k = "int" THEN [exc |-> "none", v |-> t.v]
    ELSE [exc |-> "ValueError", v |-> 0]

PyFloat(t) ==
    IF t.k \in {"int", "real"} THEN [exc |-> "none", v |-> t.v]
    ELSE [exc |-> "ValueError", v |-> 0]

\* int(data[name]['data'][-1])
IntOfLast(d, name) ==
    IF Len(d[name]) = 0 THEN [exc |-> "IndexError", v |-> 0]
    ELSE PyInt(Last(d[name]))

\* float(data[name]['data'][-1])
FloatOfLast(d, name) ==
    IF Len(d[name]) = 0 THEN [exc |-> "IndexError", v |-> 0]
    ELSE PyFloat(Last(d[name]))

(***************************************************************************)
(* The dictionary `data` and the name lists.                               *)
(***************************************************************************)
h1_names == <<"site", "lat", "lon", "alt", "freq">>
h2_names == <<"azimuth", "elevation", "beam_direction_code", "year",
              "day_of_year", "hour", "minute", "second">>
h3_names == <<"interpulse_period", "pulse_width", "first_range_gate",
              "range_between_gates", "n_gates", "n_coherent_integration",
              "n_averaged_spectra", "n_points_spectrum", "n_code_bits">>
names == <<"radial_velocity", "snr", "signal_power", "spectral_width",
           "noise_amplitude", "qc_variable">>

Range(s) == {s[i] : i \in DOMAIN s}

DataKeys == Range(h1_names) \cup Range(h2_names) \cup Range(h3_names)
            \cup Range(names) \cup {"time", "range", "reflectivity_uncalibrated"}

EmptyData == [k \in DataKeys |-> <<>>]

(***************************************************************************)
(* Reading one radar file: the file-level header.                          *)
(***************************************************************************)
Div100(v) == [k |-> "div100", v |-> v]     \* the float v / 100.

\* lines 540-543: what is appended for one token d of the first line
H1Value(d) ==
    IF d = LatLit \/ d = LonLit
    THEN LET fl == PyFloat(d) IN [exc |-> fl.exc, v |-> Div100(fl.v)]
    ELSE [exc |-> "none", v |-> d]

\* lines 537-544: ctr tokens are already stored
RECURSIVE ParseH1(_, _, _)
ParseH1(d, toks, ctr) ==
    IF Len(toks) = 0 THEN [data |-> d, exc |-> "none"]
    ELSE IF ctr >= Len(h1_names) THEN [data |-> d, exc |-> "IndexError"]
    ELSE LET v == H1Value(Head(toks)) IN
         IF v.exc # "none" THEN [data |-> d, exc |-> v.exc]
         ELSE ParseH1([d EXCEPT ![h1_names[ctr + 1]] = Append(@, v.v)],
                      Tail(toks), ctr + 1)

\* str(pd.read_table(f, nrows=0, skiprows=list(range(k))).columns[0]).split(' ')
\* with the empty strings dropped; list(range(k)) is empty for k <= 0
HeaderLine(f, k) ==
    LET off == Max(k, 0) IN
    IF off >= Len(f) THEN [exc |-> "EmptyDataError", toks |-> <<>>]
    ELSE [exc |-> "none", toks |-> f[off + 1]]

(***************************************************************************)
(* Reading one radar record.  A step works on                              *)
(*   [data, ranges, exc, amb]                                              *)
(* and does nothing once exc is set: the exception has left the try body.  *)
(***************************************************************************)
\* for d in df: if len(d) > 0: data[nm[ctr]]['data'].append(d); ctr += 1
AppendTokens(d, nm, toks) ==
    LET n == Min(Len(toks), Len(nm)) IN
    [data |-> [k \in DOMAIN d |->
                 IF \E j \in 1..n : nm[j] = k
                 THEN Append(d[k], toks[CHOOSE j \in 1..n : nm[j] = k])
                 ELSE d[k]],
     exc |-> IF Len(toks) > Len(nm) THEN "IndexError" ELSE "none"]

ReadHeader(s, f, k, nm) ==
    IF s.exc # "none" THEN s
    ELSE LET h == HeaderLine(f, k) IN
         IF h.exc # "none" THEN [s EXCEPT !.exc = h.exc]
         ELSE LET a == AppendTokens(s.data, nm, h.toks) IN
              [s EXCEPT !.data = a.data, !.exc = a.exc]

NaN == R(0)

\* df[names[j]].to_list()
ColumnOf(rows, j) ==
    [i \in 1..Len(rows) |-> IF j <= Len(rows[i]) THEN rows[i][j] ELSE NaN]

\* pd.read_csv(f, skiprows=list(range(k)), nrows=int(n_gates[-1]) - 1,
\*             delim_whitespace=True, names=list(names.keys()))
\* and lines 592-593.  Two cases differ between pandas versions and are
\* decided by `quirk`: no line left to read (EmptyDataError or an empty
\* frame), and a line among the rows that does not hold six fields
\* (ParserError or a frame).
ReadData(s, f, k, quirk) ==
    IF s.exc # "none" THEN s
    ELSE LET g == IntOfLast(s.data, "n_gates")
             nrows == g.v - 1
             off == Max(k, 0)
             avail == Max(Len(f) - off, 0)
             n == Min(Max(nrows, 0), avail)
             rows == [i \in 1..n |-> f[off + i]]
             clean == \A i \in 1..n : Len(rows[i]) = Len(names)
             stored == [key \in DOMAIN s.data |->
                          IF \E j \in 1..Len(names) : names[j] = key
                          THEN Append(s.data[key],
                                 ColumnOf(rows, CHOOSE j \in 1..Len(names) : names[j] = key))
                          ELSE s.data[key]]
         IN IF g.exc # "none" THEN [s EXCEPT !.exc = g.exc]
            ELSE IF nrows < 0 THEN [s EXCEPT !.exc = "ValueError"]
            ELSE IF avail = 0 /\ quirk
                 THEN [s EXCEPT !.exc = "EmptyDataError", !.amb = TRUE]
            ELSE IF avail = 0
                 THEN [s EXCEPT !.data = stored, !.amb = TRUE]
            ELSE IF ~clean /\ quirk
                 THEN [s EXCEPT !.exc = "ParserError", !.amb = TRUE]
            ELSE [s EXCEPT !.data = stored, !.amb = ~clean]

\* lines 596-599
SetRange(s) ==
    IF s.exc # "none" \/ Len(s.data["range"]) # 0 THEN s
    ELSE LET fg == FloatOfLast(s.data, "first_range_gate")
             g == IntOfLast(s.data, "n_gates")
             sp == FloatOfLast(s.data, "range_between_gates")
             rg == [i \in 1..Max(g.v - 1, 0) |-> fg.v + (i - 1) * sp.v]
         IN IF fg.exc # "none" THEN [s EXCEPT !.exc = fg.exc]
            ELSE IF g.exc # "none" THEN [s EXCEPT !.exc = g.exc]
            ELSE IF sp.exc # "none" THEN [s EXCEPT !.exc = sp.exc]
            ELSE [s EXCEPT !.ranges = rg, !.data["range"] = rg]

\* int('20' + y): the digits of y after "20"
YearOf(y) ==
    IF y.k # "int" \/ y.v < 0 THEN [exc |-> "ValueError", v |-> 0]
    ELSE IF y.v <= 9 THEN [exc |-> "none", v |-> 200 + y.v]
    ELSE IF y.v <= 99 THEN [exc |-> "none", v |-> 2000 + y.v]
    ELSE IF y.v <= 999 THEN [exc |-> "none", v |-> 20000 + y.v]
    ELSE [exc |-> "none", v |-> 200000 + y.v]

SecondsPerDay == 86400

\* dt.datetime(year, 1, 1, hour, minute, second) + dt.timedelta(days=day):
\* a time is its year and the seconds since 1 January 00:00:00 of that year
RecordTime(year, day, hour, minute, second) ==
    [year |-> year,
     secs |-> day * SecondsPerDay + hour * 3600 + minute * 60 + second]

\* lines 602-606
SetTime(s) ==
    IF s.exc # "none" THEN s
    ELSE LET d == s.data
             y == IF Len(d["year"]) = 0 THEN [exc |-> "IndexError", v |-> 0]
                  ELSE YearOf(Last(d["year"]))
             hh == IntOfLast(d, "hour")
             mm == IntOfLast(d, "minute")
             ss == IntOfLast(d, "second")
             dd == IntOfLast(d, "day_of_year")
             valid == /\ y.v >= 1 /\ y.v <= 9999
                      /\ hh.v >= 0 /\ hh.v <= 23
                      /\ mm.v >= 0 /\ mm.v <= 59
                      /\ ss.v >= 0 /\ ss.v <= 59
         IN IF y.exc # "none" THEN [s EXCEPT !.exc = y.exc]
            ELSE IF hh.exc # "none" THEN [s EXCEPT !.exc = hh.exc]
            ELSE IF mm.exc # "none" THEN [s EXCEPT !.exc = mm.exc]
            ELSE IF ss.exc # "none" THEN [s EXCEPT !.exc = ss.exc]
            ELSE IF ~valid THEN [s EXCEPT !.exc = "ValueError"]
            ELSE IF dd.exc # "none" THEN [s EXCEPT !.exc = dd.exc]
            ELSE [s EXCEPT !.data["time"] =
                      Append(@, RecordTime(y.v, dd.v, hh.v, mm.v, ss.v))]

\* numpy broadcasting of two one-dimensional operands
Broadcasts(n, m) == n = m \/ n = 1 \/ m = 1
BroadcastLen(n, m) == IF n = 1 THEN m ELSE n

\* lines 609-610: the list snr[-1] minus an array of the shape of ranges
SetReflectivity(s) ==
    IF s.exc # "none" THEN s
    ELSE LET snr == Last(s.data["snr"]) IN
         IF ~Broadcasts(Len(snr), Len(s.ranges))
         THEN [s EXCEPT !.exc = "ValueError"]
         ELSE [s EXCEPT !.data["reflectivity_uncalibrated"] =
                   Append(@, [snr |-> snr, ranges |-> s.ranges,
                              len |-> BroadcastLen(Len(snr), Len(s.ranges))])]

\* the offset N*(gates-1) + 2*N + 4
Index2Short(c, g) == c * (g - 1) + 2 * c + 4

\* lines 574-575: index2 for record ct > 0, g = int(data['n_gates']['data'][-1])
Index2(c, g) ==
    LET index1 == c * g IN index1 + g + 2 * c + 4

\* lines 552-610: the try body for record c of file f
RecordStep(f, d, c, rg, quirk) ==
    LET gPrev == IntOfLast(d, "n_gates")
        idx2 == IF c = 0 THEN 0 ELSE Index2(c, gPrev.v)
        h2k == IF c = 0 THEN 1 ELSE idx2 - 1
        h3k == IF c = 0 THEN 2 ELSE idx2
        dk == IF c = 0 THEN 3 ELSE idx2 + 1
        base == [data |-> d, ranges |-> rg, exc |-> "none", amb |-> FALSE]
        s0 == IF c > 0 /\ gPrev.exc # "none"
              THEN [base EXCEPT !.exc = gPrev.exc] ELSE base
        s1 == ReadHeader(s0, f, h2k, h2_names)
        s2 == ReadHeader(s1, f, h3k, h3_names)
        s3 == ReadData(s2, f, dk, quirk)
        s4 == SetRange(s3)
        s5 == SetTime(s4)
        s6 == SetReflectivity(s5)
    IN [res |-> s6,
        computed |-> c > 0 /\ gPrev.exc = "none",
        g |-> gPrev.v, index2 |-> idx2, h2off |-> Max(h2k, 0), h3off |-> Max(h3k, 0)]

\* a handler that takes only the end-of-file exception
CaughtEofOnly(exc) == exc = "EmptyDataError"

\* line 611: `except Exception` takes every exception of the try body
Caught(exc) == TRUE

\* a scan that only end-of-file ends
EndsScanEofOnly(exc, ect) == exc = "EmptyDataError"

\* line 614: the test that ends the scan of the file
EndsScan(exc, ect) == exc = "EmptyDataError" \/ ect > 1

\* a strike counter set back by every record that raised nothing
ResetAfterSuccess(ect) == 0

\* the strike counter after a record that raised nothing (the code has no
\* statement there)
CountAfterSuccess(ect) == ect

\* xr.Dataset().from_dict(data), line 623: every list of a 'time' variable
\* has the length of the time list, every row of a ('time', 'range') variable
\* the length of range, the 'file' lists one length; a ('time', 'range')
\* variable with no row is a one-dimensional empty array, which is refused
FromDictOk(d) ==
    LET T == Len(d["time"])
        Rg == Len(d["range"])
    IN /\ T >= 1
       /\ \A j \in DOMAIN h2_names : Len(d[h2_names[j]]) = T
       /\ \A j \in DOMAIN h3_names : Len(d[h3_names[j]]) = T
       /\ \A j \in DOMAIN names :
            /\ Len(d[names[j]]) = T
            /\ \A i \in 1..T : Len(d[names[j]][i]) = Rg
       /\ Len(d["reflectivity_uncalibrated"]) = T
       /\ \A i \in 1..T : d["reflectivity_uncalibrated"][i].len = Rg
       /\ \A j \in DOMAIN h1_names : Len(d[h1_names[j]]) = Len(d["site"])

(***************************************************************************)
(* Radar input files.                                                      *)
(***************************************************************************)
TimeOpts == <<[yy |-> 22, doy |-> 1, hh |-> 0, mm |-> 0, ss |-> 0],
              [yy |-> 21, doy |-> 365, hh |-> 23, mm |-> 59, ss |-> 59]>>
TimeFor(tsel, j) == TimeOpts[((tsel + j) % 2) + 1]

H1Line == <<SiteTok, I(3950), I(-10480), I(1695), I(0)>>
H2Line(t) == <<I(0), I(90), I(0), I(t.yy), I(t.doy), I(t.hh), I(t.mm), I(t.ss)>>
LongLine(t) == H2Line(t) \o <<I(0)>>
H3Line(g) == <<I(1), I(1), I(100), I(50), g, I(1), I(1), I(1), I(1)>>
RowLine == <<R(1), R(2), R(3), R(4), R(5), R(6)>>

\* one record: two header lines and b.rows data lines
BlockLines(b, t) ==
    <<(IF b.kind = "long" THEN LongLine(t) ELSE H2Line(t)), H3Line(b.g)>>
    \o [i \in 1..b.rows |-> RowLine]

BlockFile(h1, blocks, tsel) ==
    <<h1>> \o Flatten([j \in 1..Len(blocks) |-> BlockLines(blocks[j], TimeFor(tsel, j))])

\* Records of G + 2 lines each (two headers, G data lines), the layout in
\* which the offsets of consecutive records ct >= 1 fall on header lines;
\* tail >= 0 adds a last record cut after tail data lines.
ConstFile(G, kinds, tail, tsel) ==
    BlockFile(H1Line,
              [j \in 1..Len(kinds) |-> [kind |-> kinds[j], g |-> I(G), rows |-> G]]
              \o (IF tail >= 0 THEN <<[kind |-> "good", g |-> I(G), rows |-> tail]>>
                  ELSE <<>>),
              tsel)

Kinds == {"good", "long"}
SeqsUpTo(T, n) == UNION {[1..m -> T] : m \in 0..n}

\* K complete records and a last one cut after tail < G - 1 data lines
TruncFile(G, K, tail, tsel) == ConstFile(G, [j \in 1..K |-> "good"], tail, tsel)

\* gate counts as the third header line may declare them
GateToks == {I(-1), I(0), I(1), I(2), I(3), Xtok, R(2)}

GateFiles ==
    {BlockFile(H1Line, [j \in 1..Len(gs) |-> [kind |-> "good", g |-> gs[j], rows |-> r]], 0) :
        gs \in SeqsUpTo(GateToks, 2), r \in 0..MaxRows}

\* records of different gate counts, placed where the offsets computed from
\* the gate counts 2, g1, g2 fall
VaryFiles ==
    {BlockFile(H1Line, <<[kind |-> "good", g |-> I(2), rows |-> 6],
                         [kind |-> "good", g |-> I(g1), rows |-> 6],
                         [kind |-> "good", g |-> I(g2), rows |-> 3],
                         [kind |-> "good", g |-> I(2), rows |-> 1]>>, 0) :
        g1 \in {4, 5}, g2 \in {1, 2}}

\* first lines that are no five-token header, and the empty file
OddFiles ==
    {<<>>}
    \cup {BlockFile(h, <<[kind |-> "good", g |-> I(2), rows |-> 2]>>, 0) :
            h \in {<<SiteTok, LatLit, I(-10480), I(1695), I(0)>>,
                   H1Line \o <<I(0)>>,
                   <<SiteTok, I(3950)>>}}

PairFiles ==
    {ConstFile(G, [j \in 1..n |-> "good"], -1, tsel) : G \in 2..4, n \in 0..3, tsel \in 0..1}
    \cup {BlockFile(H1Line, <<[kind |-> "good", g |-> g, rows |-> 1]>>, 0) : g \in GateToks}
    \cup {<<H1Line, H2Line(TimeOpts[1]), <<I(1), I(1), I(100), I(50)>>, RowLine>>}

\* a first record that declares one gate, so has no row to read, and a
\* second record of g gates where the offset computed from one gate falls
OneGateFiles ==
    {BlockFile(H1Line, <<[kind |-> "good", g |-> I(1), rows |-> 4],
                         [kind |-> "good", g |-> I(g), rows |-> g]>>, 0) : g \in 1..MaxG}

\* the lists of files a call may be given
IsFileList(fs) ==
    \/ fs = <<>>
    \/ \E G \in 2..MaxG, kinds \in SeqsUpTo(Kinds, MaxRecs), tsel \in 0..1 :
          fs = <<ConstFile(G, kinds, -1, tsel)>>
    \/ \E G \in 2..MaxG, K \in 1..MaxRecs, tail \in 0..(MaxG - 2), tsel \in 0..1 :
          fs = <<TruncFile(G, K, tail, tsel)>>
    \/ \E f \in GateFiles \cup VaryFiles \cup OddFiles \cup OneGateFiles : fs = <<f>>
    \/ \E f1 \in PairFiles, f2 \in PairFiles : fs = <<f1, f2>>

(***************************************************************************)
(* The argument `files`, "str or list" (lines 472-474).  A string is kept  *)
(* as the number of its characters and the file it names; the directory    *)
(* holds no other file.                                                    *)
(***************************************************************************)
ListArg(fs) == [kind |-> "list", len |-> Len(fs), val |-> fs]
StrArg(n, f) == [kind |-> "str", len |-> n, val |-> f]

\* line 534, `for f in files`: a list gives its elements, a string its
\* characters, each a string of one character
ItemCount(a) == a.len

\* item i of the loop is the name of a file: an element of a list is, a
\* character is when it is the whole name
NamesFile(a, i) == a.kind = "list" \/ a.len = 1

\* the files the items name; an item that names none is held as <<>>
Items(a) ==
    IF a.kind = "list" THEN a.val
    ELSE [i \in 1..ItemCount(a) |-> IF NamesFile(a, i) THEN a.val ELSE <<>>]

(***************************************************************************)
(* read_psl_radar_fmcw_moment as a state machine.                          *)
(***************************************************************************)
NoLast == [ct |-> -1, computed |-> FALSE, g |-> 0, index2 |-> 0,
           h2off |-> 0, h3off |-> 0, exc |-> "none"]

RadarInit ==
    /\ \/ IsFileList(files) /\ arg = ListArg(files)
       \/ \E n \in 1..MaxName, f \in PairFiles :
             arg = StrArg(n, f) /\ files = Items(arg)
    /\ fi = 1
    /\ pc = "open"
    /\ data = EmptyData
    /\ ct = 0
    /\ error_ct = 0
    /\ error = FALSE
    /\ ranges = <<>>
    /\ last = NoLast
    /\ hist = <<>>
    /\ raisedAt = "none"
    /\ amb = FALSE

RadarIdle ==
    /\ arg = ListArg(<<>>)
    /\ files = <<>>
    /\ fi = 1
    /\ pc = "idle"
    /\ data = EmptyData
    /\ ct = 0
    /\ error_ct = 0
    /\ error = FALSE
    /\ ranges = <<>>
    /\ last = NoLast
    /\ hist = <<>>
    /\ raisedAt = "none"
    /\ amb = FALSE

\* lines 534-549: the first line of the next file is stored, the counters set
OpenFile ==
    /\ pc = "open"
    /\ fi <= Len(files)
    /\ NamesFile(arg, fi)
    /\ LET h == HeaderLine(files[fi], 0)
           p == ParseH1(data, h.toks, 0)
       IN /\ h.exc = "none"
          /\ p.exc = "none"
          /\ data' = p.data
    /\ pc' = "scan"
    /\ error' = FALSE
    /\ error_ct' = 0
    /\ ct' = 0
    /\ hist' = <<>>
    /\ UNCHANGED <<arg, files, fi, ranges, last, raisedAt, amb>>
    /\ UNCHANGED <<wpVars, rnVars, tVars, pvVars, qcVars>>

\* lines 536-544 are outside the try: an exception there leaves the call
\* (FileNotFoundError when the item names no file)
OpenFileRaises ==
    /\ pc = "open"
    /\ fi <= Len(files)
    /\ LET h == HeaderLine(files[fi], 0)
           p == ParseH1(data, h.toks, 0)
       IN /\ ~NamesFile(arg, fi) \/ h.exc # "none" \/ p.exc # "none"
          /\ data' = IF ~NamesFile(arg, fi) \/ h.exc # "none" THEN data ELSE p.data
    /\ pc' = "raised"
    /\ raisedAt' = "h1"
    /\ UNCHANGED <<arg, files, fi, ct, error_ct, error, ranges, last, hist, amb>>
    /\ UNCHANGED <<wpVars, rnVars, tVars, pvVars, qcVars>>

\* one pass of the while loop in which the try body raises nothing
RecordOk ==
    /\ pc = "scan"
    /\ error = FALSE
    /\ \E quirk \in BOOLEAN :
         \E r \in {RecordStep(files[fi], data, ct, ranges, quirk)} :
         /\ r.res.exc = "none"
         /\ data' = r.res.data
         /\ ranges' = r.res.ranges
         /\ amb' = (amb \/ r.res.amb)
         /\ last' = [ct |-> ct, computed |-> r.computed, g |-> r.g, index2 |-> r.index2,
                     h2off |-> r.h2off, h3off |-> r.h3off, exc |-> "none"]
    /\ error_ct' = CountAfterSuccess(error_ct)
    /\ hist' = Append(hist, "ok")
    /\ ct' = ct + 1
    /\ UNCHANGED <<arg, files, fi, pc, error, raisedAt>>
    /\ UNCHANGED <<wpVars, rnVars, tVars, pvVars, qcVars>>

\* one pass of the while loop that ends in the except clause, lines 611-620
RecordRaises ==
    /\ pc = "scan"
    /\ error = FALSE
    /\ \E quirk \in BOOLEAN :
         \E r \in {RecordStep(files[fi], data, ct, ranges, quirk)} :
         /\ r.res.exc # "none"
         /\ data' = r.res.data
         /\ ranges' = r.res.ranges
         /\ amb' = (amb \/ r.res.amb)
         /\ last' = [ct |-> ct, computed |-> r.computed, g |-> r.g, index2 |-> r.index2,
                     h2off |-> r.h2off, h3off |-> r.h3off, exc |-> r.res.exc]
         /\ error' = EndsScan(r.res.exc, error_ct)
         /\ hist' = Append(hist, IF r.res.exc = "EmptyDataError" THEN "eof" ELSE "exc")
         /\ pc' = IF Caught(r.res.exc) THEN pc ELSE "raised"
         /\ raisedAt' = IF Caught(r.res.exc) THEN raisedAt ELSE "record"
    /\ error_ct' = error_ct + 1
    /\ ct' = ct + 1
    /\ UNCHANGED <<arg, files, fi>>
    /\ UNCHANGED <<wpVars, rnVars, tVars, pvVars, qcVars>>

\* `while error is False` ends; `for f in files` takes the next file
EndFile ==
    /\ pc = "scan"
    /\ error = TRUE
    /\ fi' = fi + 1
    /\ pc' = "open"
    /\ UNCHANGED <<arg, files, data, ct, error_ct, error, ranges, last, hist, raisedAt, amb>>
    /\ UNCHANGED <<wpVars, rnVars, tVars, pvVars, qcVars>>

\* lines 622-625 when from_dict accepts the dictionary
Convert ==
    /\ pc = "open"
    /\ fi > Len(files)
    /\ FromDictOk(data)
    /\ pc' = "done"
    /\ UNCHANGED <<arg, files, fi, data, ct, error_ct, error, ranges, last, hist, raisedAt, amb>>
    /\ UNCHANGED <<wpVars, rnVars, tVars, pvVars, qcVars>>

\* line 623 when from_dict refuses the dictionary
ConvertRaises ==
    /\ pc = "open"
    /\ fi > Len(files)
    /\ ~FromDictOk(data)
    /\ pc' = "raised"
    /\ raisedAt' = "from_dict"
    /\ UNCHANGED <<arg, files, fi, data, ct, error_ct, error, ranges, last, hist, amb>>
    /\ UNCHANGED <<wpVars, rnVars, tVars, pvVars, qcVars>>

RadarNext ==
    \/ OpenFile
    \/ OpenFileRaises
    \/ RecordOk
    \/ RecordRaises
    \/ EndFile
    \/ Convert
    \/ ConvertRaises

(***************************************************************************)
(* read_psl_wind_profiler.  df[0] is the sequence of the file's lines; a   *)
(* line is [kind, toks]: its tokens, and the layout of blanks that the     *)
(* attribute lines are split on.                                           *)
(***************************************************************************)
Line(kind, toks) == [kind |-> kind, toks |-> toks]

\* lines 39-43: the 0-based indices of the lines equal to the first line
Markers(f) ==
    SelectSeq([k \in 1..Len(f) |-> k - 1],
              LAMBDA k : f[k + 1].kind = f[1].kind /\ f[k + 1].toks = f[1].toks)

beam_vars == {"RAD", "CNT", "SNR", "QC"}

Count(cl, c) == Cardinality({j \in 1..Len(cl) : cl[j] = c})

\* suffixes handed out in the opposite order
RenamedForward(cl, c) ==
    IF Count(cl, c) > 2 THEN c \o "3"
    ELSE IF Count(cl, c) > 1 THEN c \o "2"
    ELSE IF Count(cl, c) > 0 THEN c \o "1"
    ELSE c

\* lines 51-56: the new name of column c of the list cl as it is now
Renamed(cl, c) ==
    IF Count(cl, c) > 2 THEN c \o "1"
    ELSE IF Count(cl, c) > 1 THEN c \o "2"
    ELSE IF Count(cl, c) > 0 THEN c \o "3"
    ELSE c

\* lines 50-56: one pass of the loop, for position i (1-based)
RenameAt(cl, i) ==
    IF cl[i] \in beam_vars THEN [cl EXCEPT ![i] = Renamed(cl, cl[i])] ELSE cl

\* lines 49-56, from position i (1-based) on; the list is changed in place
RECURSIVE RenameFrom(_, _)
RenameFrom(cl, i) ==
    IF i > Len(cl) THEN cl ELSE RenameFrom(RenameAt(cl, i), i + 1)

\* lines 46-56: the header is that of line 9 of the file
ColumnList(f) == RenameFrom(f[10].toks, 1)

\* a loop over every marker
LoopCountAll(m) == m

\* the loop bound of line 62
LoopCount(m) == m - 1

\* a table cut one line earlier
TableLinesShort(f, start, next) ==
    LET from == start + 10
        to == Min(next - 2, Len(f))
    IN [k \in 1..Max(to - from, 0) |-> f[from + k]]

\* line 83: df.iloc[start + 10 : next - 1], a slice of line indices
TableLines(f, start, next) ==
    LET from == start + 10
        to == Min(next - 1, Len(f))      \* exclusive
    IN [k \in 1..Max(to - from, 0) |-> f[from + k]]

Sentinel == 999999

\* a table in which the sentinel stays
KeepCell(c) == c

\* line 87: df_add.replace(999999.0, np.nan)
ReplaceSentinel(c) == IF c.k = "int" /\ c.v = Sentinel THEN NaN ELSE c

\* the threshold of line 94
ModeLimit == 1000
\* a split that sends the limit itself to the low list
IsLowModeInclusive(mode) == mode <= ModeLimit

\* line 94
IsLowMode(mode) == mode < ModeLimit

PositionOf(cl, c) == CHOOSE j \in 1..Len(cl) : cl[j] = c

\* datetime(2000 + y, mo, d, h, mi, s) is accepted (months of 31 days only
\* occur in the model's files)
ValidDate(t) ==
    /\ t[2] >= 1 /\ t[2] <= 12
    /\ t[3] >= 1 /\ t[3] <= 31
    /\ t[4] >= 0 /\ t[4] <= 23
    /\ t[5] >= 0 /\ t[5] <= 59
    /\ t[6] >= 0 /\ t[6] <= 59

\* a date line that must hold exactly seven integers
ParseDateStrict(dl) ==
    IF \E j \in 1..Len(dl) : dl[j].k # "int" THEN [exc |-> "ValueError", time |-> <<>>]
    ELSE IF Len(dl) # 7 THEN [exc |-> "ValueError", time |-> <<>>]
    ELSE IF ~ValidDate([j \in 1..6 |-> dl[j].v]) THEN [exc |-> "ValueError", time |-> <<>>]
    ELSE [exc |-> "none",
          time |-> [j \in 1..6 |-> IF j = 1 THEN 2000 + dl[1].v ELSE dl[j].v]]

\* lines 67-77: every token goes through int(), then the first six are
\* handed to datetime; tokens after the sixth are not looked at
ParseDate(dl) ==
    IF \E j \in 1..Len(dl) : dl[j].k # "int" THEN [exc |-> "ValueError", time |-> <<>>]
    ELSE IF Len(dl) < 6 THEN [exc |-> "IndexError", time |-> <<>>]
    ELSE IF ~ValidDate([j \in 1..6 |-> dl[j].v]) THEN [exc |-> "ValueError", time |-> <<>>]
    ELSE [exc |-> "none",
          time |-> [j \in 1..6 |-> IF j = 1 THEN 2000 + dl[1].v ELSE dl[j].v]]

\* lines 66-92 for i (0-based): the block that starts at marker i
ParseBlock(f, i) ==
    LET idx == Markers(f)
        cl == ColumnList(f)
        start == idx[i + 1]
        next == idx[i + 2]
        date == ParseDate(f[start + 4].toks)
        ml == f[start + 8].toks
        mode == PyInt(Last(ml))
        rows == TableLines(f, start, next)
        width == IF Len(rows) = 0 THEN 1 ELSE Len(rows[1].toks)
        table == [r \in 1..Len(rows) |->
                     [c \in 1..Len(rows[r].toks) |-> ReplaceSentinel(rows[r].toks[c])]]
        raise(e) == [exc |-> e, mode |-> 0, blk |-> <<>>]
    IN IF i + 2 > Len(idx) THEN raise("IndexError")
       ELSE IF start + 3 >= Len(f) THEN raise("IndexError")
       ELSE IF date.exc # "none" THEN raise(date.exc)
       ELSE IF start + 7 >= Len(f) THEN raise("IndexError")
       ELSE IF mode.exc # "none" THEN raise(mode.exc)
       ELSE IF \E r \in 1..Len(rows) : Len(rows[r].toks) # width THEN raise("ValueError")
       ELSE IF \E r \in 1..Len(rows) : \E c \in 1..width : rows[r].toks[c].k = "str"
            THEN raise("ValueError")
       ELSE IF width # Len(cl) THEN raise("ValueError")
       ELSE IF \E a, b \in 1..Len(cl) : a # b /\ cl[a] = cl[b] THEN raise("ValueError")
       ELSE IF ~(\E j \in 1..Len(cl) : cl[j] = "HT") THEN raise("KeyError")
       ELSE [exc |-> "none", mode |-> mode.v,
             blk |-> [start |-> start,
                      time |-> date.time,
                      columns |-> cl,
                      table |-> table,
                      height |-> [r \in 1..Len(table) |-> table[r][PositionOf(cl, "HT")]]]]

RECURSIVE SetToSeq(_)
SetToSeq(T) == IF T = {} THEN <<>>
               ELSE LET x == CHOOSE y \in T : TRUE IN <<x>> \o SetToSeq(T \ {x})

\* a concatenation that sorts the blocks by their day
ConcatSorted(blocks) ==
    LET bs == SortSeq(blocks, LAMBDA a, b : a.time[3] < b.time[3]) IN
    [time |-> [j \in 1..Len(bs) |-> bs[j].time],
     height |-> IF \A j \in 1..Len(bs) : bs[j].height = bs[1].height
                THEN bs[1].height
                ELSE SortSeq(SetToSeq(UNION {Range(bs[j].height) : j \in 1..Len(bs)}),
                             LAMBDA a, b : a.v < b.v),
     tables |-> [j \in 1..Len(bs) |-> bs[j].table],
     starts |-> [j \in 1..Len(bs) |-> bs[j].start]]

\* xr.concat(blocks, 'time'): one time value per block, in list order; the
\* height index is that of the blocks, or their sorted union when they differ
Concat(blocks) ==
    [time |-> [j \in 1..Len(blocks) |-> blocks[j].time],
     height |-> IF \A j \in 1..Len(blocks) : blocks[j].height = blocks[1].height
                THEN blocks[1].height
                ELSE SortSeq(SetToSeq(UNION {Range(blocks[j].height) : j \in 1..Len(blocks)}),
                             LAMBDA a, b : a.v < b.v),
     tables |-> [j \in 1..Len(blocks) |-> blocks[j].table],
     starts |-> [j \in 1..Len(blocks) |-> blocks[j].start]]

\* lines 103-150: the attribute lines 0, 1, 2 and 8 split as expected
AttrsOk(f) ==
    /\ Len(f) >= 9
    /\ f[2].kind = "rev"
    /\ f[3].kind = "coords"
    /\ f[9].kind = "azel"

(***************************************************************************)
(* Wind-profiler input files.                                              *)
(***************************************************************************)
SiteLine == Line("site", <<"CTD">>)
HeaderA == <<"HT", "SPD", "RAD", "RAD", "RAD">>
HeaderB == <<"HT", "DIR", "CNT", "CNT", "SNR">>

DateToks(opt, j) ==
    IF opt = "short" THEN <<I(21), I(9), I(1)>>
    ELSE IF opt = "text" THEN <<I(21), I(9), Xtok, I(0), I(0), I(0), I(0)>>
    ELSE IF opt = "six" THEN <<I(21), I(9), I(j), I(0), I(0), I(0)>>
    ELSE IF opt = "eight" THEN <<I(21), I(9), I(j), I(0), I(0), I(0), I(0), I(0)>>
    ELSE <<I(21), I(9), I(j), I(0), I(0), I(0), I(0)>>

\* table row r of a block; sent = "cell" puts the sentinel into the second
\* column of every row, sent = "ht" into the height column of the first row
RowToks(r, sent) ==
    <<IF sent = "ht" /\ r = 1 THEN I(Sentinel) ELSE I(100 * r),
      IF sent = "cell" THEN I(Sentinel) ELSE I(5), I(1), I(2), I(3)>>

\* the mode line of block j
ModeToks(b, bad) ==
    IF bad = "mode" THEN <<I(1), Xtok>>
    ELSE IF bad = "modehead" THEN <<Xtok, I(b.mode)>>
    ELSE IF bad = "modeone" THEN <<I(b.mode)>>
    ELSE <<I(1), I(b.mode)>>

\* one block: ten header lines, b.rows table lines and a closing line
WPBlockLines(b, j, o) ==
    <<SiteLine,
      Line(IF o.bad = "attrs" /\ j = 1 THEN "misc" ELSE "rev", <<"WINDS", "rev", "5.1">>),
      Line("coords", <<I(39), I(-105), I(1640)>>),
      Line("date", DateToks(IF o.badBlock = j /\ o.bad \in {"short", "text", "six", "eight"}
                            THEN o.bad ELSE "ok", IF o.backwards THEN 28 - j ELSE j)),
      Line("misc", <<I(1)>>),
      Line("misc", <<I(1)>>),
      Line("misc", <<I(1)>>),
      Line("mode", ModeToks(b, IF o.badBlock = j THEN o.bad ELSE "none")),
      Line("azel", <<I(0), I(90)>>),
      Line("hdr", IF o.hdr2 /\ j > 1 THEN HeaderB ELSE HeaderA)>>
    \o [r \in 1..b.rows |-> Line("row", RowToks(r, o.sent))]
    \o <<Line("term", <<"$">>)>>

WPFileOf(blocks, o) ==
    Flatten([j \in 1..Len(blocks) |-> WPBlockLines(blocks[j], j, o)])

WPBlocks == [mode : {ModeLimit - 1, ModeLimit}, rows : {0, MaxTable}]

PlainOpt == [bad |-> "none", badBlock |-> 0, hdr2 |-> FALSE, sent |-> "no", backwards |-> FALSE]

\* a later header differs, a sentinel in the table, timestamps that go back,
\* or one block whose date, mode or attribute line is not as usual
WPOpts ==
    {PlainOpt, [PlainOpt EXCEPT !.hdr2 = TRUE], [PlainOpt EXCEPT !.backwards = TRUE],
     [PlainOpt EXCEPT !.sent = "cell"], [PlainOpt EXCEPT !.sent = "ht"]}
    \cup {[PlainOpt EXCEPT !.bad = x, !.badBlock = j] :
            x \in {"short", "text", "six", "eight", "mode", "modehead", "modeone", "attrs"},
            j \in 1..MaxMarkers}

IsWPFile(f) ==
    \/ \E bs \in SeqsUpTo(WPBlocks, MaxMarkers), o \in WPOpts :
          /\ o # PlainOpt => \A j \in 1..Len(bs) : bs[j].rows = MaxTable
          /\ f = WPFileOf(bs, o)
    \/ f \in {<<SiteLine>>, <<SiteLine, SiteLine, SiteLine>>}

(***************************************************************************)
(* read_psl_wind_profiler as a state machine.                              *)
(***************************************************************************)
NoOut == [made |-> FALSE]

WPInit ==
    /\ IsWPFile(wpFile)
    /\ wpPc = "start"
    /\ wpI = 0
    /\ low = <<>>
    /\ hi = <<>>
    /\ wpOut = NoOut
    /\ wpRaisedAt = "none"

WPIdle ==
    /\ wpFile = <<>>
    /\ wpPc = "idle"
    /\ wpI = 0
    /\ low = <<>>
    /\ hi = <<>>
    /\ wpOut = NoOut
    /\ wpRaisedAt = "none"

\* lines 36-61: the file is read, the markers found, line 9 taken as header
WPStart ==
    /\ wpPc = "start"
    /\ Len(wpFile) >= 10
    /\ wpPc' = "loop"
    /\ UNCHANGED <<wpFile, wpI, low, hi, wpOut, wpRaisedAt>>
    /\ UNCHANGED <<radarVars, rnVars, tVars, pvVars, qcVars>>

\* pd.read_csv of an empty file, or df.loc[9] of a file of fewer than ten lines
WPStartRaises ==
    /\ wpPc = "start"
    /\ Len(wpFile) < 10
    /\ wpPc' = "raised"
    /\ wpRaisedAt' = "start"
    /\ UNCHANGED <<wpFile, wpI, low, hi, wpOut>>
    /\ UNCHANGED <<radarVars, rnVars, tVars, pvVars, qcVars>>

\* one pass of the loop of line 62 that appends a block
WPBlock ==
    /\ wpPc = "loop"
    /\ wpI < LoopCount(Len(Markers(wpFile)))
    /\ \E b \in {ParseBlock(wpFile, wpI)} :
         /\ b.exc = "none"
         /\ low' = IF IsLowMode(b.mode) THEN Append(low, b.blk) ELSE low
         /\ hi' = IF IsLowMode(b.mode) THEN hi ELSE Append(hi, b.blk)
    /\ wpI' = wpI + 1
    /\ UNCHANGED <<wpFile, wpPc, wpOut, wpRaisedAt>>
    /\ UNCHANGED <<radarVars, rnVars, tVars, pvVars, qcVars>>

\* one pass of the loop of line 62 that raises: the call is left
WPBlockRaises ==
    /\ wpPc = "loop"
    /\ wpI < LoopCount(Len(Markers(wpFile)))
    /\ ParseBlock(wpFile, wpI).exc # "none"
    /\ wpPc' = "raised"
    /\ wpRaisedAt' = "block"
    /\ UNCHANGED <<wpFile, wpI, low, hi, wpOut>>
    /\ UNCHANGED <<radarVars, rnVars, tVars, pvVars, qcVars>>

\* lines 99-156
WPConcat ==
    /\ wpPc = "loop"
    /\ wpI >= LoopCount(Len(Markers(wpFile)))
    /\ Len(low) > 0
    /\ Len(hi) > 0
    /\ AttrsOk(wpFile)
    /\ wpOut' = [made |-> TRUE, low |-> Concat(low), high |-> Concat(hi)]
    /\ wpPc' = "done"
    /\ UNCHANGED <<wpFile, wpI, low, hi, wpRaisedAt>>
    /\ UNCHANGED <<radarVars, rnVars, tVars, pvVars, qcVars>>

\* xr.concat of an empty list raises; so does an attribute line that does
\* not split as expected
WPConcatRaises ==
    /\ wpPc = "loop"
    /\ wpI >= LoopCount(Len(Markers(wpFile)))
    /\ Len(low) = 0 \/ Len(hi) = 0 \/ ~AttrsOk(wpFile)
    /\ wpPc' = "raised"
    /\ wpRaisedAt' = IF Len(low) = 0 \/ Len(hi) = 0 THEN "concat" ELSE "attrs"
    /\ UNCHANGED <<wpFile, wpI, low, hi, wpOut>>
    /\ UNCHANGED <<radarVars, rnVars, tVars, pvVars, qcVars>>

WPNext ==
    \/ WPStart
    \/ WPStartRaises
    \/ WPBlock
    \/ WPBlockRaises
    \/ WPConcat
    \/ WPConcatRaises

(***************************************************************************)
(* The renaming loop of lines 48-56 on its own, one pass per step.         *)
(***************************************************************************)
HdrNames == {"HT", "RAD", "CNT"}

RnInit ==
    /\ hdr \in SeqsUpTo(HdrNames, MaxHdr)
    /\ cols = hdr
    /\ ri = 0
    /\ rnPc = "loop"

RnIdle ==
    /\ hdr = <<>>
    /\ cols = <<>>
    /\ ri = 0
    /\ rnPc = "idle"

\* lines 49-56: the pass for enumerate index ri
RenameStep ==
    /\ rnPc = "loop"
    /\ ri < Len(cols)
    /\ cols' = RenameAt(cols, ri + 1)
    /\ ri' = ri + 1
    /\ UNCHANGED <<hdr, rnPc>>
    /\ UNCHANGED <<radarVars, wpVars, tVars, pvVars, qcVars>>

\* the loop of line 49 is left
RenameDone ==
    /\ rnPc = "loop"
    /\ ri >= Len(cols)
    /\ rnPc' = "done"
    /\ UNCHANGED <<hdr, cols, ri>>
    /\ UNCHANGED <<radarVars, wpVars, tVars, pvVars, qcVars>>

RnNext ==
    \/ RenameStep
    \/ RenameDone

(***************************************************************************)
(* read_psl_wind_profiler_temperature, lines 159-344.  A line is           *)
(* [kind, toks] as in the wind-profiler file; the '$' line has kind "term".*)
(***************************************************************************)
TextKinds == {"lead", "site", "rev", "hdr", "term"}

\* the tokens of line l all convert with astype(int) / astype(float)
IntLine(l) == l.kind \notin TextKinds /\ \A j \in 1..Len(l.toks) : l.toks[j].k = "int"
FloatLine(l) ==
    l.kind \notin TextKinds /\ \A j \in 1..Len(l.toks) : l.toks[j].k \in {"int", "real"}

\* the number of leading lines of ls that are, or are not, '$' as ls[1] is
RunLen(ls) ==
    CHOOSE n \in 1..Len(ls) :
        /\ \A j \in 1..n : (ls[j].kind = "term") = (ls[1].kind = "term")
        /\ n = Len(ls) \/ (ls[n + 1].kind = "term") # (ls[1].kind = "term")

\* the lines taken as one section
GroupByNone(ls) == IF Len(ls) = 0 THEN <<>> ELSE <<ls>>

\* line 182: groupby(lines, key='$'.__ne__)
RECURSIVE GroupBy(_)
GroupBy(ls) ==
    IF Len(ls) = 0 THEN <<>>
    ELSE <<SubSeq(ls, 1, RunLen(ls))>> \o GroupBy(SubSeq(ls, RunLen(ls) + 1, Len(ls)))

\* a date line whose first six integers are enough
TParseDateLenient(l) ==
    IF ~IntLine(l) THEN [exc |-> "ValueError", time |-> <<>>]
    ELSE IF Len(l.toks) < 6 THEN [exc |-> "ValueError", time |-> <<>>]
    ELSE IF ~ValidDate([j \in 1..6 |-> l.toks[j].v]) THEN [exc |-> "ValueError", time |-> <<>>]
    ELSE [exc |-> "none",
          time |-> [j \in 1..6 |-> IF j = 1 THEN 2000 + l.toks[1].v ELSE l.toks[j].v]]

\* parse_date_line, lines 336-344: astype(int), then seven values unpacked
TParseDate(l) ==
    IF ~IntLine(l) THEN [exc |-> "ValueError", time |-> <<>>]
    ELSE IF Len(l.toks) # 7 THEN [exc |-> "ValueError", time |-> <<>>]
    ELSE IF ~ValidDate([j \in 1..6 |-> l.toks[j].v]) THEN [exc |-> "ValueError", time |-> <<>>]
    ELSE [exc |-> "none",
          time |-> [j \in 1..6 |-> IF j = 1 THEN 2000 + l.toks[1].v ELSE l.toks[j].v]]

\* a table cut one row late
KeepRowsPlusOne(rows, g) == SubSeq(rows, 1, Min(Max(g, 0) + 1, Len(rows)))

\* line 256: df.iloc[: int(number_of_gates)]
KeepRows(rows, g) ==
    IF g >= 0 THEN SubSeq(rows, 1, Min(g, Len(rows)))
    ELSE SubSeq(rows, 1, Max(Len(rows) + g, 0))

\* an offset that counts in `lines`, which lack the file's first line
HeaderIndexInLines(off) == off + 9

\* line 253, skiprows=line_offset + 10: the (0-based) line of the file that
\* pandas takes as the column header
HeaderIndex(off) == off + 10

\* lines 253-271 for the section whose first line is line off of `lines`:
\* the header is line off + 10 of the file, the rows every line after it
ReadTable(f, off, g) ==
    LET h == HeaderIndex(off)
        header == f[h + 1].toks
        rows == KeepRows([k \in 1..(Len(f) - h - 1) |-> f[h + 1 + k]], g)
        width == Len(header)
        cell(r, c) == IF c <= Len(rows[r].toks)
                      THEN ReplaceSentinel(rows[r].toks[c]) ELSE NaN
        table == [r \in 1..Len(rows) |-> [c \in 1..width |-> cell(r, c)]]
        raise(e) == [exc |-> e, table |-> <<>>, height |-> <<>>, columns |-> <<>>]
    IN IF h >= Len(f) THEN raise("EmptyDataError")
       ELSE IF \E k \in (h + 2)..Len(f) : Len(f[k].toks) > width THEN raise("ParserError")
       ELSE IF \E r \in 1..Len(rows) : ~FloatLine(rows[r]) THEN raise("ValueError")
       ELSE IF f[h + 1].kind # "hdr" \/ ~(\E j \in 1..width : header[j] = "HT")
            THEN raise("KeyError")
       ELSE [exc |-> "none", table |-> table, columns |-> header,
             height |-> [r \in 1..Len(rows) |-> table[r][PositionOf(header, "HT")]]]

\* _parse_psl_temperature_lines, lines 198-326
ParseSection(f, lines, line_offset) ==
    LET raise(e) == [exc |-> e, ds |-> <<>>]
        date == TParseDate(lines[4])
        gates == PyFloat(lines[8].toks[3])
        tab == ReadTable(f, line_offset, gates.v)
        miss(names3) == \E j \in 1..3 : ~(\E c \in 1..Len(tab.columns) : tab.columns[c] = names3[j])
    IN IF Len(lines) < 2 THEN raise("IndexError")
       ELSE IF Len(lines[2].toks) # 3 THEN raise("ValueError")
       ELSE IF Len(lines) < 3 THEN raise("IndexError")
       ELSE IF ~FloatLine(lines[3]) \/ Len(lines[3].toks) # 3 THEN raise("ValueError")
       ELSE IF Len(lines) < 4 THEN raise("IndexError")
       ELSE IF date.exc # "none" THEN raise(date.exc)
       ELSE IF Len(lines) < 5 THEN raise("IndexError")
       ELSE IF ~IntLine(lines[5]) \/ Len(lines[5].toks) # 3 THEN raise("ValueError")
       ELSE IF Len(lines) < 7 THEN raise("IndexError")
       ELSE IF ~IntLine(lines[7]) \/ Len(lines[7].toks) # 4 THEN raise("ValueError")
       ELSE IF Len(lines) < 8 THEN raise("IndexError")
       ELSE IF ~FloatLine(lines[8]) \/ Len(lines[8].toks) # 4 THEN raise("ValueError")
       ELSE IF Len(lines) < 9 THEN raise("IndexError")
       ELSE IF ~FloatLine(lines[9]) \/ Len(lines[9].toks) # 2 THEN raise("ValueError")
       ELSE IF tab.exc # "none" THEN raise(tab.exc)
       ELSE IF miss(<<"T", "Tc", "W">>) THEN raise("KeyError")
       ELSE [exc |-> "none",
             ds |-> [time |-> date.time, height |-> tab.height, table |-> tab.table,
                     columns |-> tab.columns, first |-> line_offset + 1]]

\* line 195: xr.concat(list_of_datasets, dim='time').transpose('HT', 'time')
TConcatOf(dss) ==
    [dims |-> <<"HT", "time">>,
     time |-> [j \in 1..Len(dss) |-> dss[j].time],
     height |-> IF \A j \in 1..Len(dss) : dss[j].height = dss[1].height
                THEN dss[1].height
                ELSE SortSeq(SetToSeq(UNION {Range(dss[j].height) : j \in 1..Len(dss)}),
                             LAMBDA a, b : a.v < b.v),
     tables |-> [j \in 1..Len(dss) |-> dss[j].table],
     firsts |-> [j \in 1..Len(dss) |-> dss[j].first]]

(***************************************************************************)
(* Temperature input files.                                                *)
(***************************************************************************)
THeader == <<"HT", "T", "Tc", "W", "SNR", "CNT", "SNR", "CNT", "SNR", "CNT">>

TDateToks(opt, j) ==
    IF opt = "short" THEN <<I(21), I(9), I(1)>>
    ELSE IF opt = "text" THEN <<I(21), I(9), Xtok, I(0), I(0), I(0), I(0)>>
    ELSE IF opt = "six" THEN <<I(21), I(9), I(j), I(0), I(0), I(0)>>
    ELSE IF opt = "eight" THEN <<I(21), I(9), I(j), I(0), I(0), I(0), I(0), I(0)>>
    ELSE <<I(21), I(9), I(j), I(0), I(0), I(0), I(0)>>

\* table row r; sent = "cell" puts the sentinel into the T column of every
\* row, sent = "ht" into the height column of the first row
TRowToks(r, sent) ==
    <<IF sent = "ht" /\ r = 1 THEN I(Sentinel) ELSE I(100 * r),
      IF sent = "cell" THEN I(Sentinel) ELSE R(r),
      R(2), R(3), I(4), I(5), I(6), I(7), I(8), I(9)>>

\* section j: nine metadata lines, the column header, b.rows table lines
TSectionLines(b, j, o) ==
    <<Line("site", <<"CTD">>),
      Line("rev", <<"RASS", "rev", "5.1">>),
      Line("coords", <<R(39), R(-105), I(1640)>>),
      Line("date", TDateToks(IF o.badSec = j THEN o.bad ELSE "ok",
                             IF o.backwards THEN 28 - j ELSE j)),
      Line("cons", <<I(60), I(1), I(b.gates)>>),
      Line("misc", <<I(1)>>),
      Line("integ", <<I(1), I(1), I(1), I(1)>>),
      Line("gates", <<R(1), I(1), I(b.gates), I(60)>>),
      Line("azel", <<I(0), I(90)>>),
      Line("hdr", THeader)>>
    \o [r \in 1..(IF o.badSec = j /\ o.bad = "fewrows" THEN b.gates - 1 ELSE b.rows)
          |-> Line("row", TRowToks(r, o.sent))]
    \o [k \in 1..o.seps |-> Line("term", <<"$">>)]

\* the file: its first line, which line 179 drops, o.dollars '$' lines,
\* then the sections, each closed by o.seps '$' lines
TFileOf(secs, o) ==
    (IF o.lead THEN <<Line("lead", <<>>)>> ELSE <<>>)
    \o [k \in 1..o.dollars |-> Line("term", <<"$">>)]
    \o Flatten([j \in 1..Len(secs) |-> TSectionLines(secs[j], j, o)])

\* a section declares 1..MaxGates gates and holds that many rows or one more
TSecs == {[gates |-> g, rows |-> g + x] : g \in 1..MaxGates, x \in 0..1}

TPlain == [bad |-> "none", badSec |-> 0, sent |-> "no", backwards |-> FALSE, lead |-> TRUE,
           seps |-> 1, dollars |-> 0]

TOpts ==
    {TPlain, [TPlain EXCEPT !.backwards = TRUE], [TPlain EXCEPT !.lead = FALSE],
     [TPlain EXCEPT !.sent = "cell"], [TPlain EXCEPT !.sent = "ht"],
     [TPlain EXCEPT !.seps = 2], [TPlain EXCEPT !.dollars = 1],
     [TPlain EXCEPT !.seps = 3, !.dollars = 2]}
    \cup {[TPlain EXCEPT !.bad = x, !.badSec = j] :
            x \in {"short", "text", "six", "eight", "fewrows"}, j \in 1..MaxSecs}

IsTFile(f) ==
    \/ f = <<>>
    \/ \E secs \in SeqsUpTo(TSecs, MaxSecs), o \in TOpts :
          /\ o.bad # "none" => (o.badSec <= Len(secs) /\ \A j \in 1..Len(secs) : secs[j].rows = MaxGates)
          /\ o # TPlain => \A j \in 1..Len(secs) : secs[j].rows >= MaxGates
          /\ f = TFileOf(secs, o)

(***************************************************************************)
(* read_psl_wind_profiler_temperature as a state machine.                  *)
(***************************************************************************)
TInit ==
    /\ IsTFile(tFile)
    /\ tPc = "start"
    /\ sections_of_file = <<>>
    /\ secK = 0
    /\ start_line = 0
    /\ list_of_datasets = <<>>
    /\ tOut = NoOut
    /\ tRaisedAt = "none"

TIdle ==
    /\ tFile = <<>>
    /\ tPc = "idle"
    /\ sections_of_file = <<>>
    /\ secK = 0
    /\ start_line = 0
    /\ list_of_datasets = <<>>
    /\ tOut = NoOut
    /\ tRaisedAt = "none"

\* lines 177-186: the lines but the first, grouped
TStart ==
    /\ tPc = "start"
    /\ sections_of_file' = GroupBy(IF Len(tFile) = 0 THEN <<>> ELSE Tail(tFile))
    /\ tPc' = "loop"
    /\ UNCHANGED <<tFile, secK, start_line, list_of_datasets, tOut, tRaisedAt>>
    /\ UNCHANGED <<radarVars, wpVars, rnVars, pvVars, qcVars>>

\* lines 187-192 for a section of '$' lines
TSkip ==
    /\ tPc = "loop"
    /\ secK < Len(sections_of_file)
    /\ sections_of_file[secK + 1][1].kind = "term"
    /\ start_line' = start_line + Len(sections_of_file[secK + 1])
    /\ secK' = secK + 1
    /\ UNCHANGED <<tFile, tPc, sections_of_file, list_of_datasets, tOut, tRaisedAt>>
    /\ UNCHANGED <<radarVars, wpVars, rnVars, pvVars, qcVars>>

\* lines 187-192 for a data section that parses
TParse ==
    /\ tPc = "loop"
    /\ secK < Len(sections_of_file)
    /\ sections_of_file[secK + 1][1].kind # "term"
    /\ \E p \in {ParseSection(tFile, sections_of_file[secK + 1], start_line)} :
         /\ p.exc = "none"
         /\ list_of_datasets' = Append(list_of_datasets, p.ds)
    /\ start_line' = start_line + Len(sections_of_file[secK + 1])
    /\ secK' = secK + 1
    /\ UNCHANGED <<tFile, tPc, sections_of_file, tOut, tRaisedAt>>
    /\ UNCHANGED <<radarVars, wpVars, rnVars, pvVars, qcVars>>

\* a data section that raises: nothing catches it
TParseRaises ==
    /\ tPc = "loop"
    /\ secK < Len(sections_of_file)
    /\ sections_of_file[secK + 1][1].kind # "term"
    /\ ParseSection(tFile, sections_of_file[secK + 1], start_line).exc # "none"
    /\ tPc' = "raised"
    /\ tRaisedAt' = "section"
    /\ UNCHANGED <<tFile, sections_of_file, secK, start_line, list_of_datasets, tOut>>
    /\ UNCHANGED <<radarVars, wpVars, rnVars, pvVars, qcVars>>

\* line 195
TConcat ==
    /\ tPc = "loop"
    /\ secK >= Len(sections_of_file)
    /\ Len(list_of_datasets) > 0
    /\ tOut' = [made |-> TRUE, ds |-> TConcatOf(list_of_datasets)]
    /\ tPc' = "done"
    /\ UNCHANGED <<tFile, sections_of_file, secK, start_line, list_of_datasets, tRaisedAt>>
    /\ UNCHANGED <<radarVars, wpVars, rnVars, pvVars, qcVars>>

\* line 195 with nothing to concatenate
TConcatRaises ==
    /\ tPc = "loop"
    /\ secK >= Len(sections_of_file)
    /\ Len(list_of_datasets) = 0
    /\ tPc' = "raised"
    /\ tRaisedAt' = "concat"
    /\ UNCHANGED <<tFile, sections_of_file, secK, start_line, list_of_datasets, tOut>>
    /\ UNCHANGED <<radarVars, wpVars, rnVars, pvVars, qcVars>>

TNext ==
    \/ TStart
    \/ TSkip
    \/ TParse
    \/ TParseRaises
    \/ TConcat
    \/ TConcatRaises

(***************************************************************************)
(* read_psl_parsivel, lines 347-462.  A file is the tokens of its first    *)
(* line and the index column of its rows (the lines after the third); an   *)
(* index entry 'a-b' is [s |-> a, e |-> b], times of day as numbers.       *)
(***************************************************************************)
Ival(a, b) == [k |-> "ival", s |-> a, e |-> b]
NoDash(a) == [k |-> "nodash", s |-> a, e |-> a]

\* line 392: pd.read_table(f, nrows=0).to_string().split(' ')[-3]; the
\* string ends in '<tokens of line 0>]' + newline + 'Index: []'
PvDate(head) == IF Len(head) >= 3 THEN head[Len(head) - 1] ELSE Xtok

\* pd.to_datetime(date + ':' + t, format='%y%j%H:%M:%S:%f')
ToDatetime(date, t) ==
    IF date.k = "int" THEN [exc |-> "none", v |-> [yd |-> date.v, tod |-> t]]
    ELSE [exc |-> "ValueError", v |-> <<>>]

\* line 397
StartTimeOf(date, t) == ToDatetime(date, t.s)

\* an end time taken from the part before the dash
EndTimeOfStart(date, t) == ToDatetime(date, t.s)

\* line 398: t.split('-')[1]
EndTimeOf(date, t) ==
    IF t.k = "nodash" THEN [exc |-> "IndexError", v |-> <<>>]
    ELSE ToDatetime(date, t.e)

\* lines 390-400 for one file: the start times, and the end times appended
FileTimes(f) ==
    LET date == PvDate(f.head)
        st == [r \in 1..Len(f.rows) |-> StartTimeOf(date, f.rows[r])]
        en == [r \in 1..Len(f.rows) |-> EndTimeOf(date, f.rows[r])]
        bad == {r \in 1..Len(f.rows) : st[r].exc # "none" \/ en[r].exc # "none"}
    IN IF bad = {}
       THEN [exc |-> "none",
             start_time |-> [r \in 1..Len(f.rows) |-> st[r].v],
             ends |-> [r \in 1..Len(f.rows) |-> en[r].v]]
       ELSE LET r0 == CHOOSE r \in bad : \A q \in bad : r <= q IN
            [exc |-> IF st[r0].exc # "none" THEN st[r0].exc ELSE en[r0].exc,
             start_time |-> <<>>, ends |-> <<>>]

\* lines 383-384
AsList(a) == IF a.kind = "list" THEN a.val ELSE <<a.val>>

PvHead(opt, d) ==
    IF opt = "shorthead" THEN <<SiteTok, I(d)>>
    ELSE IF opt = "textdate" THEN <<SiteTok, Xtok, I(5)>>
    ELSE <<SiteTok, I(d), I(5)>>

PvDates == <<22001, 21365>>
PvIvals == {Ival(1, 2), Ival(2, 1)}

PvFileOf(rows, j, o) ==
    [head |-> PvHead(IF o.badFile = j THEN o.bad ELSE "ok", PvDates[((o.dsel + j) % 2) + 1]),
     rows |-> IF o.badFile = j /\ o.bad = "nodash"
              THEN [r \in 1..Len(rows) |-> NoDash(rows[r].s)] ELSE rows]

PvOpts ==
    {[bad |-> "none", badFile |-> 0, dsel |-> d] : d \in 0..1}
    \cup {[bad |-> x, badFile |-> j, dsel |-> 0] :
            x \in {"nodash", "shorthead", "textdate"}, j \in 1..MaxPvFiles}

IsPvArg(a) ==
    \/ \E rs \in SeqsUpTo(SeqsUpTo(PvIvals, MaxPvRows), MaxPvFiles), o \in PvOpts :
          /\ o.badFile <= Len(rs)
          /\ a = ListArg([j \in 1..Len(rs) |-> PvFileOf(rs[j], j, o)])
    \/ \E rows \in SeqsUpTo(PvIvals, MaxPvRows), n \in 1..MaxName, o \in PvOpts :
          /\ o.badFile <= 1
          /\ a = StrArg(n, PvFileOf(rows, 1, o))

PvInit ==
    /\ IsPvArg(pvArg)
    /\ pvFiles = <<>>
    /\ pvK = 0
    /\ pvData = <<>>
    /\ end_time = <<>>
    /\ pvOut = NoOut
    /\ pvPc = "start"
    /\ pvRaisedAt = "none"

PvIdle ==
    /\ pvArg = ListArg(<<>>)
    /\ pvFiles = <<>>
    /\ pvK = 0
    /\ pvData = <<>>
    /\ end_time = <<>>
    /\ pvOut = NoOut
    /\ pvPc = "idle"
    /\ pvRaisedAt = "none"

\* lines 383-388
PvStart ==
    /\ pvPc = "start"
    /\ pvFiles' = AsList(pvArg)
    /\ pvPc' = "loop"
    /\ UNCHANGED <<pvArg, pvK, pvData, end_time, pvOut, pvRaisedAt>>
    /\ UNCHANGED <<radarVars, wpVars, rnVars, tVars, qcVars>>

\* lines 389-400 for a file whose rows all convert
PvFile ==
    /\ pvPc = "loop"
    /\ pvK < Len(pvFiles)
    /\ \E ft \in {FileTimes(pvFiles[pvK + 1])} :
         /\ ft.exc = "none"
         /\ pvData' = Append(pvData, ft.start_time)
         /\ end_time' = end_time \o ft.ends
    /\ pvK' = pvK + 1
    /\ UNCHANGED <<pvArg, pvFiles, pvOut, pvPc, pvRaisedAt>>
    /\ UNCHANGED <<radarVars, wpVars, rnVars, tVars, qcVars>>

\* lines 397-398 raise: the call is left
PvFileRaises ==
    /\ pvPc = "loop"
    /\ pvK < Len(pvFiles)
    /\ FileTimes(pvFiles[pvK + 1]).exc # "none"
    /\ pvPc' = "raised"
    /\ pvRaisedAt' = "row"
    /\ UNCHANGED <<pvArg, pvFiles, pvK, pvData, end_time, pvOut>>
    /\ UNCHANGED <<radarVars, wpVars, rnVars, tVars, qcVars>>

\* lines 402-462: pd.concat(data) gives the time index, end_time the
\* variable interval_end_time on it
PvBuild ==
    /\ pvPc = "loop"
    /\ pvK >= Len(pvFiles)
    /\ Len(pvData) > 0
    /\ Len(end_time) = Len(Flatten(pvData))
    /\ pvOut' = [made |-> TRUE, time |-> Flatten(pvData), interval_end_time |-> end_time]
    /\ pvPc' = "done"
    /\ UNCHANGED <<pvArg, pvFiles, pvK, pvData, end_time, pvRaisedAt>>
    /\ UNCHANGED <<radarVars, wpVars, rnVars, tVars, qcVars>>

\* pd.concat of an empty list raises at line 402; a DataArray whose data
\* and coordinate differ in length raises at line 428
PvBuildRaises ==
    /\ pvPc = "loop"
    /\ pvK >= Len(pvFiles)
    /\ Len(pvData) = 0 \/ Len(end_time) # Len(Flatten(pvData))
    /\ pvPc' = "raised"
    /\ pvRaisedAt' = IF Len(pvData) = 0 THEN "concat" ELSE "end_time"
    /\ UNCHANGED <<pvArg, pvFiles, pvK, pvData, end_time, pvOut>>
    /\ UNCHANGED <<radarVars, wpVars, rnVars, tVars, qcVars>>

PvNext ==
    \/ PvStart
    \/ PvFile
    \/ PvFileRaises
    \/ PvBuild
    \/ PvBuildRaises

(***************************************************************************)
(* add_missing_value_test of act/qc/qctests.py, lines 42-122.  A value is  *)
(* None, a finite number, NaN or an infinity; the variable has a dtype, a  *)
(* list of values and, perhaps, a missing_value attribute.                 *)
(***************************************************************************)
None == [k |-> "none", v |-> 0]
Num(n) == [k |-> "num", v |-> n]
QNaN == [k |-> "nan", v |-> 0]
QInf == [k |-> "inf", v |-> 0]

DefaultMissing == -9999

\* lines 87-88 and 93-94: dtype.type in (type(0.0), np.float16, ...)
IsFloatType(var) == var.dtype = "float"

\* lines 96-97: dtype.type in (int(0), np.int8, ...)
IsIntType(var) == var.dtype = "int"

\* get_missing_value(self._obj, var_name, nodefault=True): the variable's
\* attribute, None when it has none
GetMissingValue(var) == var.att

\* lines 85-91: the value when no argument is given
Resolve(var) ==
    LET found == GetMissingValue(var) IN
    IF found = None /\ IsFloatType(var) THEN QNaN ELSE Num(DefaultMissing)

\* lines 93-98: float(missing_value), or int(missing_value), which refuses
\* NaN and the infinities
Cast(var, mv) ==
    IF IsFloatType(var) THEN [exc |-> "none", v |-> mv]
    ELSE IF IsIntType(var)
    THEN IF mv.k = "nan" THEN [exc |-> "ValueError", v |-> mv]
         ELSE IF mv.k = "inf" THEN [exc |-> "OverflowError", v |-> mv]
         ELSE [exc |-> "none", v |-> mv]
    ELSE [exc |-> "none", v |-> mv]

\* line 100, `np.isnan(missing_value) is False`: np.isnan returns a
\* numpy.bool_, which is not the object False whatever its value
IsNanIsFalse(mv) == FALSE

\* np.ma.masked_equal(values, mv).mask: NaN equals nothing
MaskedEqual(values, mv) ==
    {i \in 0..(Len(values) - 1) : mv.k # "nan" /\ values[i + 1] = mv}

\* np.ma.masked_invalid(values).mask: NaN and the infinities
MaskedInvalid(values) ==
    {i \in 0..(Len(values) - 1) : values[i + 1].k \in {"nan", "inf"}}

\* lines 100-108: np.where(data.mask)[0], as the set of its entries
IndexOf(values, mv) ==
    IF IsNanIsFalse(mv) THEN MaskedEqual(values, mv) ELSE MaskedInvalid(values)

FloatVals == {Num(DefaultMissing), Num(-999), Num(1), QNaN, QInf}
IntVals == {Num(DefaultMissing), Num(-999), Num(1)}

IsQCVar(var) ==
    \E dt \in {"float", "int"}, att \in {None, Num(DefaultMissing), Num(-999)} :
        \E vs \in SeqsUpTo(IF dt = "float" THEN FloatVals ELSE IntVals, MaxVals) :
            var = [dtype |-> dt, values |-> vs, att |-> att]

QCInit ==
    /\ IsQCVar(qcVar)
    /\ qcArg \in {None, Num(DefaultMissing), Num(-999), QNaN}
    /\ missing_value = None
    /\ index = {}
    /\ qcPc = "start"

QCIdle ==
    /\ qcVar = [dtype |-> "float", values |-> <<>>, att |-> None]
    /\ qcArg = None
    /\ missing_value = None
    /\ index = {}
    /\ qcPc = "idle"

\* lines 84-98 when the conversion raises nothing
QCResolve ==
    /\ qcPc = "start"
    /\ \E c \in {Cast(qcVar, IF qcArg = None THEN Resolve(qcVar) ELSE qcArg)} :
         /\ c.exc = "none"
         /\ missing_value' = c.v
    /\ qcPc' = "resolved"
    /\ UNCHANGED <<qcVar, qcArg, index>>
    /\ UNCHANGED <<radarVars, wpVars, rnVars, tVars, pvVars>>

\* line 98 raises
QCResolveRaises ==
    /\ qcPc = "start"
    /\ Cast(qcVar, IF qcArg = None THEN Resolve(qcVar) ELSE qcArg).exc # "none"
    /\ qcPc' = "raised"
    /\ UNCHANGED <<qcVar, qcArg, missing_value, index>>
    /\ UNCHANGED <<radarVars, wpVars, rnVars, tVars, pvVars>>

\* lines 100-122: the mask, the indices handed to add_test, and the
\* attribute set when the variable has none
QCFlag ==
    /\ qcPc = "resolved"
    /\ index' = IndexOf(qcVar.values, missing_value)
    /\ qcVar' = IF qcVar.att = None THEN [qcVar EXCEPT !.att = missing_value] ELSE qcVar
    /\ qcPc' = "done"
    /\ UNCHANGED <<qcArg, missing_value>>
    /\ UNCHANGED <<radarVars, wpVars, rnVars, tVars, pvVars>>

QCNext ==
    \/ QCResolve
    \/ QCResolveRaises
    \/ QCFlag

(***************************************************************************)
(* Specifications: one call of each reader.                                *)
(***************************************************************************)
Init == RadarInit /\ WPIdle /\ RnIdle /\ TIdle /\ PvIdle /\ QCIdle
Next == RadarNext
Spec == Init /\ [][Next]_vars

InitWP == RadarIdle /\ WPInit /\ RnIdle /\ TIdle /\ PvIdle /\ QCIdle
SpecWP == InitWP /\ [][WPNext]_vars

InitRn == RadarIdle /\ WPIdle /\ RnInit /\ TIdle /\ PvIdle /\ QCIdle
SpecRn == InitRn /\ [][RnNext]_vars

InitT == RadarIdle /\ WPIdle /\ RnIdle /\ TInit /\ PvIdle /\ QCIdle
SpecT == InitT /\ [][TNext]_vars

InitPv == RadarIdle /\ WPIdle /\ RnIdle /\ TIdle /\ PvInit /\ QCIdle
SpecPv == InitPv /\ [][PvNext]_vars

InitQC == RadarIdle /\ WPIdle /\ RnIdle /\ TIdle /\ PvIdle /\ QCInit
SpecQC == InitQC /\ [][QCNext]_vars

\* any one of the calls
InitAny == Init \/ InitWP \/ InitT
NextAny == Next \/ WPNext \/ TNext
SpecAny == InitAny /\ [][NextAny]_vars

(***************************************************************************)
(* Properties.                                                             *)
(***************************************************************************)
Scanning == pc = "scan"
Failures(h) == Cardinality({i \in 1..Len(h) : h[i] # "ok"})
Ended == pc \in {"done", "raised"}

\* C1 (as claimed): a record exception other than end-of-stream is tolerated
\* exactly once: the second consecutive one ends the scan of the file.
C1_SecondStrikeEnds ==
    (Scanning /\ Len(hist) >= 2 /\ hist[Len(hist) - 1] = "exc" /\ Last(hist) = "exc")
        => error = TRUE

\* C2 (as claimed): after every record that parsed the strike counter is
\* zero, and strikes end a scan only when two failures follow one another.
C2_ResetOnSuccess ==
    Scanning /\ Len(hist) > 0 =>
        /\ Last(hist) = "ok" => error_ct = 0
        /\ (error /\ Last(hist) = "exc") => (Len(hist) >= 2 /\ hist[Len(hist) - 1] = "exc")

\* C2 (amended): the strike counter is never set back; it is the number of
\* records of the file that raised, whether or not records parsed in
\* between, and the scan ends at end-of-stream or at the first exception
\* raised with the counter above 1.
C2_CountsAllFailures ==
    Scanning =>
        /\ error_ct = Failures(hist)
        /\ ~error => (error_ct <= 2 /\ \A i \in 1..Len(hist) : hist[i] # "eof")
        /\ error => (Last(hist) = "eof" \/ (Last(hist) = "exc" /\ error_ct = 3))

\* C2 witness: three failures, each but the last followed by a record that
\* parsed, end the scan.
C2_Witness ==
    /\ Scanning /\ error /\ ~amb
    /\ Last(hist) = "exc"
    /\ \A i \in 1..(Len(hist) - 1) : hist[i] = "exc" => hist[i + 1] = "ok"

\* the file scanned is K complete records and a cut last one
IsTruncOf(f, K) ==
    \E G \in 2..MaxG, tail \in 0..(MaxG - 2), tsel \in 0..1 :
        tail < G - 1 /\ f = TruncFile(G, K, tail, tsel)

\* C3 (as claimed): K well-formed records and a truncated last record give
\* exactly K time entries and no exception to the caller.
C3_TruncatedTail ==
    (Ended /\ Len(files) = 1 /\ ~amb) =>
        \A K \in 1..MaxRecs :
            IsTruncOf(files[1], K) => (pc = "done" /\ Len(data["time"]) = K)

\* C4 (as claimed, second part): a record that parses after a record that
\* parsed reads its headers at a larger offset than that record.
C4_OffsetForward ==
    [][(Scanning /\ Len(hist) >= 2 /\ Last(hist) = "ok" /\ ~amb'
        /\ hist' = Append(hist, "ok"))
       => last'.index2 > last.index2]_vars

\* C4 (amended): the loop of a file ends after finitely many passes: at most
\* three passes raise, and a pass ct >= 1 that follows a pass that parsed
\* computes an offset of at least 3*ct + 5, so the passes that parse are
\* bounded by the length of the file.
C4_Terminates ==
    Scanning =>
        /\ error_ct <= 3
        /\ 3 * ct <= Len(files[fi]) + 21
        /\ (Len(hist) >= 2 /\ hist[Len(hist) - 1] = "ok" /\ last.computed)
              => last.index2 >= 3 * last.ct + 5

\* C4 witness: a scan ended by its third strike after records that parsed.
C4_Witness ==
    Scanning /\ error /\ Last(hist) = "exc" /\ error_ct = 3 /\ ct > 3

\* C5: no exception of a record leaves the call, and the end of a file's
\* scan does not end the call: every file of the list is opened and its scan
\* starts with record counter 0 and strike counter 0.
C5_RecordErrorsStayInside ==
    /\ raisedAt # "record"
    /\ (Scanning /\ hist = <<>>) => (ct = 0 /\ error_ct = 0 /\ error = FALSE)
    /\ Scanning => Len(data["site"]) = fi
    /\ (Ended /\ raisedAt # "h1") => fi = Len(files) + 1

\* C5 witness: the scan of the second file starts after a strike ended the
\* scan of the first.
C5_Witness ==
    /\ Scanning /\ fi = 2 /\ hist = <<>>
    /\ last.exc \notin {"none", "EmptyDataError"}
    /\ ct = 0 /\ error_ct = 0 /\ error = FALSE

\* C6 (as claimed): index2 for record N > 0 is N*(gates-1) + 2*N + 4.
C6_Index2AsClaimed ==
    (Scanning /\ last.computed /\ last.ct > 0)
        => last.index2 = last.ct * (last.g - 1) + 2 * last.ct + 4

\* C6 (amended): index2 for record N > 0 is (N+1)*gates + 2*N + 4, gates
\* being the latest entry of n_gates; the second header line is read at line
\* index2 - 1 and the third at line index2 (line 0 when that is negative).
C6_Index2 ==
    (Scanning /\ last.computed /\ last.ct > 0)
        => /\ last.index2 = (last.ct + 1) * last.g + 2 * last.ct + 4
           /\ last.h2off = Max(last.index2 - 1, 0)
           /\ last.h3off = Max(last.index2, 0)

\* C6 witness: a record N = 2 read with 3 gates declared.
C6_Witness ==
    Scanning /\ last.computed /\ last.ct = 2 /\ last.g = 3 /\ last.exc = "none"

\* C7 (as claimed): the time of a record is 1 January of 2000 + YY plus
\* D - 1 days plus H:M:S.
C7_DayOfYear ==
    (Scanning /\ Len(hist) > 0 /\ Last(hist) = "ok") =>
        Last(data["time"]) =
            [year |-> 2000 + Last(data["year"]).v,
             secs |-> (Last(data["day_of_year"]).v - 1) * SecondsPerDay
                      + Last(data["hour"]).v * 3600
                      + Last(data["minute"]).v * 60 + Last(data["second"]).v]

\* C8 (as claimed): latitude and longitude are stored divided by 100, site,
\* altitude and frequency as read.
C8_LatLonScaled ==
    (Scanning /\ Len(files[fi][1]) = 5) =>
        LET h == files[fi][1] IN
        /\ Last(data["site"]) = h[1]
        /\ Last(data["lat"]) = Div100(h[2].v)
        /\ Last(data["lon"]) = Div100(h[3].v)
        /\ Last(data["alt"]) = h[4]
        /\ Last(data["freq"]) = h[5]

WPMarkerCount == Len(Markers(wpFile))
WPRunning == wpPc \in {"loop", "done", "raised"} /\ wpRaisedAt # "start"

\* C9: with M marker lines exactly the M - 1 blocks at the first M - 1
\* markers are parsed: low and high together hold one block per pass, in
\* marker order, the loop is left after pass M - 1, and no block starts at
\* the last marker.
C9_AllButLast ==
    WPRunning =>
        LET idx == Markers(wpFile)
            starts == {low[j].start : j \in 1..Len(low)} \cup {hi[j].start : j \in 1..Len(hi)}
        IN /\ Len(low) + Len(hi) = wpI
           /\ wpI <= Len(idx) - 1
           /\ starts = {idx[j] : j \in 1..wpI}
           /\ wpRaisedAt = "block" => wpI < Len(idx) - 1
           /\ (wpPc = "done" \/ wpRaisedAt \in {"concat", "attrs"}) => wpI = Len(idx) - 1

\* C9 witness: a file of three markers returned with two blocks.
C9_Witness ==
    wpPc = "done" /\ WPMarkerCount = 3 /\ Len(low) + Len(hi) = 2

\* C10 (as claimed): a file of one block with N table rows returns a dataset
\* of N height levels and one time value, the heights being the HT column.
C10_SingleBlock ==
    (wpPc \in {"done", "raised"} /\ WPMarkerCount = 1) =>
        \A b \in WPBlocks, o \in WPOpts :
            (o.bad = "none" /\ b.rows >= 1 /\ wpFile = WPFileOf(<<b>>, o)) =>
                /\ wpPc = "done"
                /\ \E ds \in {wpOut.low, wpOut.high} :
                     /\ Len(ds.time) = 1
                     /\ ds.height = [r \in 1..b.rows |-> I(100 * r)]

\* the occurrences of hdr[j] at positions up to j, and from j on
OccUpTo(h, j) == Cardinality({i \in 1..j : h[i] = h[j]})
OccFrom(h, j) == Cardinality({i \in j..Len(h) : h[i] = h[j]})
Renaming == rnPc = "done" /\ Len(cols) = Len(hdr)

\* C11 (as claimed): of a beam name that occurs several times the 1st
\* occurrence from the left gets the suffix "3", the 2nd "2", the 3rd and
\* every later one "1"; other names are unchanged.
C11_FirstGetsThree ==
    Renaming =>
        \A j \in 1..Len(hdr) :
            IF hdr[j] \in beam_vars /\ Count(hdr, hdr[j]) >= 2
            THEN cols[j] = hdr[j] \o (IF OccUpTo(hdr, j) = 1 THEN "3"
                                      ELSE IF OccUpTo(hdr, j) = 2 THEN "2" ELSE "1")
            ELSE hdr[j] \in beam_vars \/ cols[j] = hdr[j]

\* C11 (amended): the suffix is counted from the right: the last occurrence
\* of a beam name gets "3" (also when it is the only one), the one before it
\* "2", every earlier one "1"; other names are unchanged, and the loop gives
\* what RenameFrom gives.
C11_CountedFromRight ==
    Renaming =>
        /\ \A j \in 1..Len(hdr) :
              IF hdr[j] \in beam_vars
              THEN cols[j] = hdr[j] \o (IF OccFrom(hdr, j) = 1 THEN "3"
                                        ELSE IF OccFrom(hdr, j) = 2 THEN "2" ELSE "1")
              ELSE cols[j] = hdr[j]
        /\ cols = RenameFrom(hdr, 1)

\* C11 witness: a header with a beam name three times, another once and a
\* name that is no beam name has been renamed.
C11_Witness ==
    /\ Renaming
    /\ Count(hdr, "RAD") = 3
    /\ cols = <<"HT", "RAD1", "RAD2", "RAD3">>

\* C12 (as claimed): after the renaming the beam columns are pairwise
\* distinct, however often a beam name occurs.
C12_Unique ==
    Renaming =>
        \A a, b \in 1..Len(hdr) :
            (a # b /\ hdr[a] \in beam_vars /\ hdr[b] \in beam_vars) => cols[a] # cols[b]
\* the blocks appended so far, and the date and mode line of the block that
\* starts at line s
WPParsed == Range(low) \cup Range(hi)
DateLineAt(s) == wpFile[s + 4].toks
ModeLineAt(s) == wpFile[s + 8].toks
Increasing(bl) == \A a, b \in 1..Len(bl) : a < b => bl[a].start < bl[b].start

\* C13: a parsed block is in exactly one list, in low if and only if the
\* last token of line start+7 is below 1000 (1000 itself goes to high), and
\* each list, and each returned dataset, keeps the file order of its blocks.
C13_LowHighSplit ==
    WPRunning =>
        /\ \A j \in 1..Len(low) : Last(ModeLineAt(low[j].start)).v < 1000
        /\ \A j \in 1..Len(hi) : Last(ModeLineAt(hi[j].start)).v >= 1000
        /\ Increasing(low) /\ Increasing(hi)
        /\ {low[j].start : j \in 1..Len(low)} \cap {hi[j].start : j \in 1..Len(hi)} = {}
        /\ Len(low) + Len(hi) = wpI
        /\ wpPc = "done" =>
              /\ wpOut.low.starts = [j \in 1..Len(low) |-> low[j].start]
              /\ wpOut.high.starts = [j \in 1..Len(hi) |-> hi[j].start]

\* C13 witness: a file returned with two blocks in one list and a block of
\* mode exactly 1000 in the high list.
C13_Witness ==
    /\ wpPc = "done"
    /\ Len(low) + Len(hi) = 3
    /\ \E j \in 1..Len(hi) : Last(ModeLineAt(hi[j].start)).v = 1000
AllInt(toks) == \A j \in 1..Len(toks) : toks[j].k = "int"
AllNumeric(toks) == \A j \in 1..Len(toks) : toks[j].k \in {"int", "real"}

\* C17 (as claimed): a block is parsed only if its date line holds exactly
\* seven tokens and its date and mode lines hold numeric tokens only.
C17_StrictLines ==
    WPRunning =>
        \A b \in WPParsed :
            /\ Len(DateLineAt(b.start)) = 7
            /\ AllNumeric(DateLineAt(b.start))
            /\ AllNumeric(ModeLineAt(b.start))

\* C17 (amended): the read is aborted, and nothing returned, by a date line
\* of fewer than six tokens or with a token that is no integer, and by a
\* mode line whose last token is no integer; a date line of six, or of more
\* than seven, integers is parsed from its first six, and of the mode line
\* only the last token is looked at.  (A block without table rows aborts the
\* read as well, at line 86.)
C17_AbortsOn ==
    WPRunning =>
        /\ \A b \in WPParsed :
              /\ Len(DateLineAt(b.start)) >= 6
              /\ AllInt(DateLineAt(b.start))
              /\ Last(ModeLineAt(b.start)).k = "int"
        /\ wpRaisedAt = "block" =>
              LET s == Markers(wpFile)[wpI + 1] IN
              /\ wpOut = NoOut
              /\ \/ Len(DateLineAt(s)) < 6
                 \/ ~AllInt(DateLineAt(s))
                 \/ Last(ModeLineAt(s)).k # "int"
                 \/ wpFile[s + 11].kind # "row"      \* the block has no table row
        /\ wpPc = "done" => wpOut.made

\* C17 witness: after a block was parsed, the next block's date line of
\* three tokens has aborted the read.
C17_Witness ==
    /\ wpRaisedAt = "block"
    /\ wpI >= 1
    /\ Len(DateLineAt(Markers(wpFile)[wpI + 1])) < 6
    /\ wpOut = NoOut
(***************************************************************************)
(* Properties of the temperature reader.  A dataset of list_of_datasets    *)
(* knows the line of `lines` its section starts at (1-based: ds.first), so *)
(* its section starts at line ds.first + 1 of the file.                    *)
(***************************************************************************)
TEnded == tPc \in {"done", "raised"}
TDataSections == {k \in 1..Len(sections_of_file) : sections_of_file[k][1].kind # "term"}
TDateLineOf(ds) == tFile[ds.first + 4]
TGatesOf(ds) == tFile[ds.first + 8].toks[3].v
TRowLine(ds, r) == tFile[ds.first + 10 + r]
TRowsIn(sec) == Cardinality({k \in 1..Len(sec) : sec[k].kind = "row"})
WellFormedDate(l) == l.kind = "date" /\ Len(l.toks) = 7 /\ AllInt(l.toks)

\* the file has its first line, and S >= 1 data sections that declare G
\* gates each, hold at least G rows and a date line of seven integers
TRegular(S, G) ==
    /\ Len(tFile) > 0 /\ tFile[1].kind = "lead"
    /\ Cardinality(TDataSections) = S
    /\ \A k \in TDataSections :
          LET sec == sections_of_file[k] IN
          /\ Len(sec) >= 10
          /\ sec[1].kind = "site"
          /\ WellFormedDate(sec[4])
          /\ sec[8].toks[3] = I(G)
          /\ TRowsIn(sec) >= G

\* C15: S data sections separated by '$' lines, each declaring G gates and
\* holding at least G rows of one height grid, give a dataset of S times
\* and G heights with HT as the leading dimension.
C15_TimeAndHeight ==
    TEnded =>
        \A S \in 1..MaxSecs, G \in 1..MaxGates :
            TRegular(S, G) =>
                /\ tPc = "done"
                /\ Len(tOut.ds.time) = S
                /\ Len(tOut.ds.height) = G
                /\ tOut.ds.dims = <<"HT", "time">>

\* C15 witness: two sections of two gates each have been returned.
C15_Witness ==
    tPc = "done" /\ TRegular(2, 2) /\ Len(tOut.ds.time) = 2

\* C16: a data section whose date line is not seven integers is never
\* parsed: the call raises there and returns nothing, whatever sections
\* were parsed before it.
C16_BadDateAborts ==
    /\ \A j \in 1..Len(list_of_datasets) : WellFormedDate(TDateLineOf(list_of_datasets[j]))
    /\ tPc = "done" =>
          \A k \in TDataSections :
              Len(sections_of_file[k]) >= 4 /\ WellFormedDate(sections_of_file[k][4])
    /\ tPc = "raised" => tOut = NoOut

\* C16 witness: after a section was parsed, the next one's date line of
\* eight tokens has ended the call with an exception.
C16_Witness ==
    /\ tRaisedAt = "section"
    /\ Len(list_of_datasets) >= 1
    /\ sections_of_file[secK + 1][4].kind = "date"
    /\ Len(sections_of_file[secK + 1][4].toks) = 8
    /\ tOut = NoOut

\* C19: the table of a parsed section holds the first G rows below the
\* column header, G being the third value of the section's 8th line, and
\* no more (fewer only when fewer lines follow the header).
C19_TruncatedToGates ==
    \A j \in 1..Len(list_of_datasets) :
        LET ds == list_of_datasets[j] IN
        /\ Len(ds.table) <= TGatesOf(ds)
        /\ Len(ds.table) = Min(TGatesOf(ds), Len(tFile) - (ds.first + 10))
        /\ \A r \in 1..Len(ds.table) :
              /\ TRowLine(ds, r).kind = "row"
              /\ \A c \in 1..Len(TRowLine(ds, r).toks) :
                    ds.table[r][c] \in {TRowLine(ds, r).toks[c], NaN}

\* C19 witness: a section of G + 1 rows that declares G = 2 was parsed to a
\* table of two rows.
C19_Witness ==
    /\ tPc = "done"
    /\ \E j \in 1..Len(list_of_datasets) :
          LET ds == list_of_datasets[j] IN
          /\ TGatesOf(ds) = 2
          /\ Len(ds.table) = 2
          /\ TRowLine(ds, 3).kind = "row"

\* what a table cell of the input is in the output
Substituted(c) == IF c = I(999999) THEN NaN ELSE c
NoSentinel(seq) == \A j \in 1..Len(seq) : seq[j] # I(999999)

\* C14: in the blocks of the wind-profiler reader and the sections of the
\* temperature reader, and in what the readers return, no cell and no
\* height is 999999: an input cell of that value is NaN, every other cell
\* is as parsed.
C14_NoSentinel ==
    /\ \A b \in WPParsed :
          /\ NoSentinel(b.height)
          /\ \A r \in 1..Len(b.table) : \A c \in 1..Len(b.table[r]) :
                b.table[r][c] = Substituted(wpFile[b.start + 10 + r].toks[c])
    /\ wpOut.made =>
          /\ NoSentinel(wpOut.low.height) /\ NoSentinel(wpOut.high.height)
          /\ \A t \in Range(wpOut.low.tables) \cup Range(wpOut.high.tables) :
                \A r \in 1..Len(t) : NoSentinel(t[r])
    /\ \A j \in 1..Len(list_of_datasets) :
          LET ds == list_of_datasets[j] IN
          /\ NoSentinel(ds.height)
          /\ \A r \in 1..Len(ds.table) : \A c \in 1..Len(ds.table[r]) :
                ds.table[r][c] = Substituted(TRowLine(ds, r).toks[c])
    /\ tOut.made =>
          /\ NoSentinel(tOut.ds.height)
          /\ \A t \in Range(tOut.ds.tables) : \A r \in 1..Len(t) : NoSentinel(t[r])

\* C14 witness: a temperature file with 999999 in the height column has
\* been returned with NaN as that height.
C14_Witness ==
    /\ tPc = "done"
    /\ \E j \in 1..Len(list_of_datasets) :
          LET ds == list_of_datasets[j] IN
          /\ TRowLine(ds, 1).toks[1] = I(999999)
          /\ ds.height[1] = NaN
    /\ \E r \in 1..Len(tOut.ds.height) : tOut.ds.height[r] = NaN
\* the time a date line of year, month, day, hour, minute, second gives
TimeOfDateLine(toks) == [j \in 1..6 |-> IF j = 1 THEN 2000 + toks[1].v ELSE toks[j].v]
TimesOf(bl) == [j \in 1..Len(bl) |-> bl[j].time]

\* the times of the wind-profiler and temperature outputs are those of the
\* blocks and sections, in file order
TimesInFileOrder ==
    /\ Increasing(low) /\ Increasing(hi)
    /\ \A b \in WPParsed : b.time = TimeOfDateLine(DateLineAt(b.start))
    /\ wpOut.made =>
          /\ wpOut.low.time = TimesOf(low)
          /\ wpOut.high.time = TimesOf(hi)
    /\ \A j \in 1..Len(list_of_datasets) :
          /\ list_of_datasets[j].time = TimeOfDateLine(TDateLineOf(list_of_datasets[j]).toks)
          /\ \A k \in 1..(j - 1) : list_of_datasets[k].first < list_of_datasets[j].first
    /\ tOut.made => tOut.ds.time = TimesOf(list_of_datasets)

\* a step of the radar reader leaves the time list as it is or appends the
\* time of the record just read
RadarTimeAppended ==
    LET old == data["time"]
        new == data'["time"]
    IN \/ new = old
       \/ /\ Len(new) = Len(old) + 1
          /\ SubSeq(new, 1, Len(old)) = old
          /\ hist' = Append(hist, "ok") \/ hist' = Append(hist, "exc")
          /\ Last(new).year = 2000 + Last(data'["year"]).v
          /\ Last(new).secs = Last(data'["day_of_year"]).v * 86400
                               + Last(data'["hour"]).v * 3600
                               + Last(data'["minute"]).v * 60 + Last(data'["second"]).v

RECURSIVE ScanFrom(_, _, _, _, _, _, _)
ScanFrom(f, d, c, rg, ect, h, a) ==
    LET r == RecordStep(f, d, c, rg, FALSE).res IN
    IF r.exc = "none"
    THEN ScanFrom(f, r.data, c + 1, r.ranges, CountAfterSuccess(ect), Append(h, "ok"),
                  a \/ r.amb)
    ELSE IF EndsScan(r.exc, ect)
    THEN [hist |-> Append(h, IF r.exc = "EmptyDataError" THEN "eof" ELSE "exc"),
          data |-> r.data, amb |-> a \/ r.amb]
    ELSE ScanFrom(f, r.data, c + 1, r.ranges, ect + 1, Append(h, "exc"), a \/ r.amb)

ScanAlone(f) ==
    ScanFrom(f, ParseH1(EmptyData, HeaderLine(f, 0).toks, 0).data, 0, <<>>, 0, <<>>, FALSE)

\* the last n entries of a list
TailOf(sq, n) == SubSeq(sq, Len(sq) - n + 1, Len(sq))

\* C20 (as claimed): the scan of a file that follows another file in the
\* list accepts and rejects the same records, and stores the same times,
\* rows and reflectivities, as its scan in a call of its own.
C20_FilesIndependent ==
    (Scanning /\ error /\ fi = 2 /\ ~amb) =>
        \E solo \in {ScanAlone(files[2])} :
            solo.amb \/
            /\ hist = solo.hist
            /\ \A key \in {"time", "snr", "reflectivity_uncalibrated"} :
                  /\ Len(data[key]) >= Len(solo.data[key])
                  /\ TailOf(data[key], Len(solo.data[key])) = solo.data[key]

\* the call with the list [f] returns
ReturnsAsList(f, solo) ==
    /\ HeaderLine(f, 0).exc = "none"
    /\ ParseH1(EmptyData, HeaderLine(f, 0).toks, 0).exc = "none"
    /\ FromDictOk(solo.data)

\* C21 (as claimed): a call given one file name as a string ends as the call
\* given the list of that one file: it returns when that call returns, and
\* with the same dictionary.
C21_StringIsOneFile ==
    (arg.kind = "str" /\ Ended /\ ~amb) =>
        \E solo \in {ScanAlone(arg.val)} :
            solo.amb \/
            /\ (pc = "done") = ReturnsAsList(arg.val, solo)
            /\ pc = "done" => data = solo.data

\* C22 (as claimed): with no missing_value argument the value used is the
\* variable's own missing-value attribute when it has one, and NaN when it
\* has none and is of a floating-point type.
C22_AttributeFirst ==
    (qcPc = "resolved" /\ qcArg = None) =>
        /\ qcVar.att # None => missing_value = qcVar.att
        /\ (qcVar.att = None /\ IsFloatType(qcVar)) => missing_value = QNaN

\* the indices (from 0) of the values equal to mv, NaN counting as equal to NaN
EqualTo(values, mv) ==
    {i \in 0..(Len(values) - 1) :
        IF mv.k = "nan" THEN values[i + 1].k = "nan" ELSE values[i + 1] = mv}

\* C28 (as claimed): the indices flagged are exactly those whose value
\* equals the missing value in use: every element equal to a finite missing
\* value, every NaN element for a NaN missing value, and no other.
C28_FlagsEqualValues ==
    qcPc = "done" => index = EqualTo(qcVar.values, missing_value)

\* the rows of the files, file after file: [f, r] for row r of file f
PvRowsOf(fs) ==
    Flatten([j \in 1..Len(fs) |-> [r \in 1..Len(fs[j].rows) |-> [f |-> j, r |-> r]]])

\* C27: the time sequence is the start times of the rows, file after file in
\* list order, interval_end_time has the same length, and its entry i is the
\* end of the interval of the row that gave time[i], on that file's date.
C27_TimesAligned ==
    pvPc = "done" =>
        LET rows == PvRowsOf(pvFiles)
            dateOf(i) == PvDate(pvFiles[rows[i].f].head).v
            ival(i) == pvFiles[rows[i].f].rows[rows[i].r]
        IN /\ pvFiles = AsList(pvArg)
           /\ Len(pvOut.time) = Len(rows)
           /\ Len(pvOut.interval_end_time) = Len(pvOut.time)
           /\ \A i \in 1..Len(rows) :
                /\ pvOut.time[i] = [yd |-> dateOf(i), tod |-> ival(i).s]
                /\ pvOut.interval_end_time[i] = [yd |-> dateOf(i), tod |-> ival(i).e]

\* C27 witness: two files of different dates, two rows in all, returned.
C27_Witness ==
    /\ pvPc = "done"
    /\ Len(pvFiles) = 2
    /\ PvDate(pvFiles[1].head) # PvDate(pvFiles[2].head)
    /\ Len(pvFiles[1].rows) >= 1 /\ Len(pvFiles[2].rows) >= 1
    /\ Len(pvOut.interval_end_time) = Len(pvFiles[1].rows) + Len(pvFiles[2].rows)
    /\ pvOut.interval_end_time[1].tod # pvOut.time[1].tod

\* C23 (as claimed): the column names of every parsed block are those of
\* the block's own header line, at start + 9, after the renaming; blocks
\* whose header lines differ have different column names.
C23_OwnHeader ==
    \A b \in WPParsed :
        /\ b.columns = RenameFrom(wpFile[b.start + 10].toks, 1)
        /\ \A c \in WPParsed :
              wpFile[b.start + 10].toks # wpFile[c.start + 10].toks => b.columns # c.columns

\* the marker that follows the marker at line s
NextMarkerAfter(s) ==
    CHOOSE n \in Range(Markers(wpFile)) :
        n > s /\ \A q \in Range(Markers(wpFile)) : q > s => n <= q

\* the table of block b is the lines from (0-based) to to, both included
TableIsLines(b, from, to) ==
    /\ Len(b.table) = to - from + 1
    /\ \A r \in 1..Len(b.table) :
          b.table[r] = [c \in 1..Len(wpFile[from + r].toks) |->
                           Substituted(wpFile[from + r].toks[c])]

\* C24 (as claimed): the table rows of a block are the lines start+10 up to
\* and including next-1, next - start - 10 rows.
C24_RowsToNextMarker ==
    \A b \in WPParsed :
        TableIsLines(b, b.start + 10, NextMarkerAfter(b.start) - 1)

\* C24 (amended): the table rows of a block are the lines start+10 up to and
\* including next-2, next - start - 11 rows: the line before the next marker
\* is not part of the table, nor is any line after it.
C24_RowsToTerminator ==
    \A b \in WPParsed :
        /\ TableIsLines(b, b.start + 10, NextMarkerAfter(b.start) - 2)
        /\ Len(b.table) = NextMarkerAfter(b.start) - b.start - 11

\* C24 witness: a block of two table rows followed by its closing line and
\* the next marker has been parsed.
C24_Witness ==
    \E b \in WPParsed :
        /\ NextMarkerAfter(b.start) = b.start + 13
        /\ wpFile[b.start + 13].kind = "term"
        /\ Len(b.table) = 2

\* `lines` of line 179, and the (1-based) places in it where a maximal run
\* of lines other than '$' starts
TLines == IF Len(tFile) = 0 THEN <<>> ELSE Tail(tFile)
RunStarts ==
    {p \in 1..Len(TLines) :
        TLines[p].kind # "term" /\ (p = 1 \/ TLines[p - 1].kind = "term")}

\* C25: the datasets are those of the maximal runs of lines other than '$',
\* one each and in file order, none for a run of '$' lines; the offset
\* passed for a run is the index of its first line, so the column header
\* read for it is its own 10th line, whatever '$' lines stand before it; a
\* file of regular sections is returned with one dataset per run.
C25_OneDatasetPerRun ==
    /\ \A j \in 1..Len(list_of_datasets) :
          LET ds == list_of_datasets[j] IN
          /\ ds.first \in RunStarts
          /\ Cardinality({p \in RunStarts : p <= ds.first}) = j
          /\ TLines[ds.first + 9].kind = "hdr"
          /\ ds.columns = TLines[ds.first + 9].toks
          /\ \A r \in 1..Len(ds.table) : TLines[ds.first + 9 + r].kind = "row"
    /\ tPc = "done" => Len(list_of_datasets) = Cardinality(RunStarts)
    /\ (TEnded /\ \E S \in 1..MaxSecs, G \in 1..MaxGates : TRegular(S, G)) =>
          tPc = "done" /\ Len(tOut.ds.time) = Cardinality(RunStarts)

\* C25 witness: a file with two '$' lines before its first section and
\* three after each has been returned with a dataset for each of two runs.
C25_Witness ==
    /\ tPc = "done"
    /\ Len(list_of_datasets) = 2
    /\ TLines[1].kind = "term" /\ TLines[2].kind = "term"
    /\ list_of_datasets[1].first = 3
    /\ TLines[list_of_datasets[2].first - 3].kind = "term"

\* the lists that take one entry per record
PerRecord ==
    Range(h2_names) \cup Range(h3_names) \cup Range(names)
    \cup {"time", "reflectivity_uncalibrated"}
Successes(h) == Cardinality({i \in 1..Len(h) : h[i] = "ok"})

\* C29 (as claimed): when the scan of a file has ended, the second-header,
\* third-header, channel, time and reflectivity lists all have one length,
\* in the first file one entry per record that parsed: a record that failed
\* left no entry.
C29_NoPartialEntries ==
    (Scanning /\ error /\ ~amb) =>
        /\ \A a, b \in PerRecord : Len(data[a]) = Len(data[b])
        /\ fi = 1 => \A a \in PerRecord : Len(data[a]) = Successes(hist)

\* C26 (as claimed): the range coordinate is that of the first record of
\* the call, gate_count - 1 entries first_gate_range + i * gate_spacing, and
\* stays so whatever later records and files declare.
C26_RangeFromFirstRecord ==
    (pc \in {"open", "scan"} /\ Len(data["time"]) >= 1 /\ ~amb) =>
        LET fg == data["first_range_gate"][1].v
            sp == data["range_between_gates"][1].v
            g == data["n_gates"][1].v
        IN data["range"] = [i \in 1..(g - 1) |-> fg + (i - 1) * sp]

\* the modes of the blocks that the loop of line 62 takes: the last token
\* of line start + 7 of every marker but the last
LoopModes ==
    LET idx == Markers(wpFile) IN
    [j \in 1..(Len(idx) - 1) |-> Last(ModeLineAt(idx[j])).v]
WPAllParsed == wpPc \in {"done", "raised"} /\ wpRaisedAt \notin {"start", "block"}

\* C30: the call returns only when the blocks parsed (all but the last)
\* hold a block of mode below 1000 and a block of mode 1000 or more; when
\* all blocks have parsed and one of the two kinds is missing, the call
\* raises at the concatenation and returns nothing.
C30_BothModesNeeded ==
    WPAllParsed =>
        LET hasLow == \E j \in 1..Len(LoopModes) : LoopModes[j] < 1000
            hasHigh == \E j \in 1..Len(LoopModes) : LoopModes[j] >= 1000
        IN /\ wpPc = "done" => (hasLow /\ hasHigh /\ Len(low) >= 1 /\ Len(hi) >= 1 /\ wpOut.made)
           /\ (hasLow /\ hasHigh) => wpRaisedAt # "concat"
           /\ ~(hasLow /\ hasHigh) =>
                 (wpPc = "raised" /\ wpRaisedAt = "concat" /\ wpOut = NoOut)

\* C30 witness: two blocks of low mode were parsed, none of high mode, and
\* the call has raised at the concatenation.
C30_Witness ==
    /\ wpPc = "raised" /\ wpRaisedAt = "concat"
    /\ Len(low) = 2 /\ Len(hi) = 0
    /\ wpOut = NoOut
====
